---- MODULE Spec2Model ----
(***************************************************************************)
(* Extraction-and-scoring pipeline of analyze_annual_reports.              *)
(*                                                                         *)
(*   SpecChunk    CorpusBuilder.split_text_into_chunks on every bounded    *)
(*                text                                                     *)
(*   SpecExtract  one call of CorpusBuilder.llm_extract against every      *)
(*                behaviour of the extraction service                      *)
(*   SpecBatch    one call of CorpusBuilder.build_corpus_batch             *)
(*   SpecTfidf    the tables of DatabaseManagerV2 and                      *)
(*                TFIDFCalculator.calculate_tfidf_for_year                 *)
(*                                                                         *)
(* Strings are sequences of one-character strings.  Each specification     *)
(* leaves the variables of the other parts at their idle values.           *)
(***************************************************************************)
EXTENDS Integers, Sequences, FiniteSets, TLC

VARIABLES
    text,        \* split_text_into_chunks: the text argument
    max_tokens,  \* split_text_into_chunks: the max_tokens argument
    chunks,      \* split_text_into_chunks: the returned list
    split_pc,    \* "input" before the call, "returned" after it
    ex_pc,       \* llm_extract: "idle", "called", "direct", "chunked",
                 \*   "returned" or "raised"
    attempt,     \* loop variable of the running retry loop
    chunk_i,     \* llm_extract_chunked: index of the chunk being processed
    all_structured_data,  \* llm_extract_chunked: merged structured data
    all_text_segments,    \* llm_extract_chunked: merged text segments
    chunk_results,        \* what _llm_extract_single_chunk returned, per chunk
    result,      \* llm_extract: the returned value
    ex_failed,   \* llm_extract returned through a final-failure branch
    service_calls,  \* calls of client.chat.completions.create so far
    last_response,  \* what the last of them gave (without structured_data,
                    \*   which nothing reads, when the attempt was retried)
    last_sleep,     \* the argument of the asyncio.sleep that followed it, 0
                    \*   when none did
    chunked_calls,  \* calls of llm_extract_chunked so far
    logged,         \* the calls of logger the last step made, in order
    batch_pc,    \* build_corpus_batch: "idle", "gathering" or "returned"
    semaphore,   \* value of asyncio.Semaphore(self.max_concurrent)
    task_pc,     \* per file: "created", "waiting", "running", "extracting",
                 \*   "done"
    outcome,     \* per file: what process_with_semaphore returned or raised
    finished,    \* the files in the order their tasks finished
    results,     \* the list asyncio.gather returned
    success_count,
    failed_count,
    error_count,
    kw_pc,       \* extract_keywords_from_corpus: "idle", "loop" (at the head
                 \*   of "for year in years"), "gathering" or "returned"
    years,       \* extract_keywords_from_corpus: the list years
    kw_semaphore,  \* extract_keywords_for_year: value of its semaphore
    kw_task,     \* per year entered, in order, and per batch: "created",
                 \*   "waiting", "running" or "done"
    kw_result,   \* per year entered and per batch: what
                 \*   extract_with_semaphore returned or raised
    all_years_keywords,  \* extract_keywords_from_corpus: the year and the
                         \*   keywords of every year processed, in order
    companies,     \* per year: the tickers of table companies_<year>
    corpus,        \* per year: the rows of corpus_<year>, in rowid order
    keywords,      \* the rows of the shared table keywords, in rowid order
    tfidf_scores,  \* per year: the rows of tfidf_scores_<year>, in rowid order
    tfidf_calls,   \* per year: calls of calculate_tfidf_for_year so far
    tfidf_runs,    \* per year: those calls made since the year's companies,
                   \*   corpus or the keywords last changed
    quantitative_scores,  \* per year: the rows of quantitative_scores_<year>,
                          \*   in rowid order
    score_calls,   \* per year: calls of calculate_scores_for_year so far
    score_input,   \* per year: the TF-IDF rows the last call of
                   \*   calculate_scores_for_year read, per ticker
    year_keywords, \* what extract_keywords_for_year returned last, in the
                   \*   order of the dictionary
    writer,        \* the write method of DatabaseManagerV2 being called
    write_pc,      \* "idle", "attempting", "returned" or "raised"
    write_attempt, \* the loop variable attempt of the write method
    write_sleeps,  \* the arguments of time.sleep during the call, in order
    write_error,   \* the error the call raised: "none", "locked" or "other"
    committed      \* the write methods whose statements were committed, in
                   \*   order

chunkVars == <<text, max_tokens, chunks, split_pc>>

extractVars == <<ex_pc, attempt, chunk_i, all_structured_data,
                 all_text_segments, chunk_results, result, ex_failed,
                 service_calls, last_response, last_sleep, chunked_calls,
                 logged>>

keywordVars == <<kw_pc, years, kw_semaphore, kw_task, kw_result,
                 all_years_keywords>>

batchVars == <<batch_pc, semaphore, task_pc, outcome, finished, results,
               success_count, failed_count, error_count, keywordVars>>

writeVars == <<writer, write_pc, write_attempt, write_sleeps, write_error,
               committed>>

dbVars == <<companies, corpus, keywords, tfidf_scores, tfidf_calls, tfidf_runs,
            quantitative_scores, score_calls, score_input, year_keywords,
            writeVars>>

vars == <<chunkVars, extractVars, batchVars, dbVars>>

----------------------------------------------------------------------------
(* Bounds                                                                  *)

\* longest input text of the chunker
MaxTextLen == 10
\* largest max_tokens argument (the code passes 100000)
MaxTokens == 1
\* number of files handed to build_corpus_batch
NumFiles == 3
\* self.max_concurrent (the configuration sets 8)
MaxConcurrent == 2
\* largest segments_count a report returns
MaxSegmentsCount == 1
\* most rows of one year's corpus table
MaxSegments == 2
\* most rows of the keywords table
MaxKeywords == 2
\* most calls of calculate_tfidf_for_year per year
MaxTfidfRuns == 2
\* most rows of one year's table of TF-IDF rows when scores are computed
MaxTfidfRows == 4
\* most calls of calculate_scores_for_year for one year
MaxScoreRuns == 2
\* most committed writes in a run of the write methods
MaxWrites == 2
\* rows of a corpus table the TF-IDF step is run on
MaxCorpusRows == 3
\* self.batch_size of the keyword extractor (the configuration sets 50)
BatchSize == 1

----------------------------------------------------------------------------
(* Characters and strings                                                  *)

NL == "\n"
Alphabet == {"a", "b", NL}
Whitespace == {NL, " "}

\* all strings over Alphabet of length <= n
TextsUpTo(n) == UNION {[1..k -> Alphabet] : k \in 0..n}

\* ''.join(parts)
RECURSIVE Concat(_)
Concat(parts) ==
    IF parts = <<>> THEN <<>> ELSE Head(parts) \o Concat(Tail(parts))

\* str.strip(): leading and trailing whitespace removed
RECURSIVE LStrip(_)
LStrip(s) ==
    IF s # <<>> /\ Head(s) \in Whitespace THEN LStrip(Tail(s)) ELSE s

RECURSIVE RStrip(_)
RStrip(s) ==
    IF s # <<>> /\ s[Len(s)] \in Whitespace
    THEN RStrip(SubSeq(s, 1, Len(s) - 1))
    ELSE s

Strip(s) == RStrip(LStrip(s))

\* str.split('\n\n'): cut at each leftmost, non-overlapping double newline
RECURSIVE SplitParagraphs(_)
SplitParagraphs(s) ==
    LET hits == {i \in 1..(Len(s) - 1) : s[i] = NL /\ s[i + 1] = NL}
    IN  IF hits = {}
        THEN <<s>>
        ELSE LET i == CHOOSE j \in hits : \A k \in hits : j <= k
             IN  <<SubSeq(s, 1, i - 1)>>
                     \o SplitParagraphs(SubSeq(s, i + 2, Len(s)))

----------------------------------------------------------------------------
(* CorpusBuilder.split_text_into_chunks                                    *)

\* max_chars = max_tokens * 4
MaxChars(mt) == mt * 4

\* faulty variant: the boundary case len(text) = max_chars goes on to the splitting loop
FitsWholeStrict(t, max_chars) == Len(t) < max_chars

\* if len(text) <= max_chars: return [text]
FitsWhole(t, max_chars) == Len(t) <= max_chars

\* faulty variant: pieces one character too long
HardSplitWide(para, max_chars) ==
    [k \in 1..((Len(para) + max_chars) \div (max_chars + 1)) |->
        SubSeq(para, (k - 1) * (max_chars + 1) + 1,
               IF k * (max_chars + 1) < Len(para)
               THEN k * (max_chars + 1) ELSE Len(para))]

\* for i in range(0, len(para), max_chars): chunks.append(para[i:i+max_chars])
HardSplit(para, max_chars) ==
    [k \in 1..((Len(para) + max_chars - 1) \div max_chars) |->
        SubSeq(para, (k - 1) * max_chars + 1,
               IF k * max_chars < Len(para) THEN k * max_chars ELSE Len(para))]

\* faulty variant: the buffer is reset without being saved
FlushDropped(cs, cur) == cs

\* if current_chunk: chunks.append(current_chunk.strip())
Flush(cs, cur) == IF cur # <<>> THEN Append(cs, Strip(cur)) ELSE cs

\* the for loop over paragraphs, from paragraph i on, and the final flush
RECURSIVE ChunkLoop(_, _, _, _, _)
ChunkLoop(paras, i, cs, cur, max_chars) ==
    IF i > Len(paras)
    THEN Flush(cs, cur)
    ELSE LET para == paras[i] IN
         IF Len(para) > max_chars
         THEN ChunkLoop(paras, i + 1,
                        Flush(cs, cur) \o HardSplit(para, max_chars),
                        <<>>, max_chars)
         ELSE IF Len(cur) + Len(para) + 2 <= max_chars
         THEN ChunkLoop(paras, i + 1, cs, cur \o para \o <<NL, NL>>, max_chars)
         ELSE ChunkLoop(paras, i + 1, Flush(cs, cur),
                        para \o <<NL, NL>>, max_chars)

split_text_into_chunks(t, mt) ==
    IF FitsWhole(t, MaxChars(mt))
    THEN <<t>>
    ELSE ChunkLoop(SplitParagraphs(t), 1, <<>>, <<>>, MaxChars(mt))

----------------------------------------------------------------------------
(* Responses of the extraction service                                     *)

\* retry loops: max_retries = 3
max_retries == 3

Keys == {"foreign_investments", "global_trade"}

\* a JSON value under a structured_data key: a list of items, or one
\* scalar/object (items then holds that one value)
ListValue(items) == [list |-> TRUE, items |-> items]
ScalarValue(x) == [list |-> FALSE, items |-> <<x>>]

NoKeys == [k \in {} |-> ListValue(<<>>)]

\* structured_data of a response: absent, not a mapping, or a mapping
SDAbsent == [tag |-> "absent", map |-> NoKeys]
SDNonMapping == [tag |-> "nonmapping", map |-> NoKeys]
SDMap(f) == [tag |-> "map", map |-> f]

\* text_segments of a response: absent, null, a non-list scalar, or a list
TSAbsent == [tag |-> "absent", items |-> <<>>]
TSNull == [tag |-> "null", items |-> <<>>]
TSScalar == [tag |-> "scalar", items |-> <<>>]
TSList(s) == [tag |-> "list", items |-> s]

Mappings ==
    { NoKeys,
      [k \in {"foreign_investments"} |-> ListValue(<<1, 2>>)],
      [k \in {"foreign_investments"} |-> ListValue(<<3, 4, 5>>)],
      [k \in {"foreign_investments"} |-> ScalarValue(6)],
      [k \in Keys |-> IF k = "global_trade"
                      THEN ScalarValue(7) ELSE ListValue(<<>>)] }

SDValues == {SDAbsent, SDNonMapping} \cup {SDMap(f) : f \in Mappings}

TSValues == {TSAbsent, TSNull, TSScalar,
             TSList(<<>>), TSList(<<11>>), TSList(<<12, 13>>)}

\* a parsed JSON object
Object(sd, ts) == [kind |-> "object", structured_data |-> sd, text_segments |-> ts]

\* what one call of client.chat.completions.create plus json.loads gives:
\* a JSON object, a JSON value that is no object, a JSONDecodeError, an
\* exception whose message names a token limit, any other exception
Failure(k) == [kind |-> k, structured_data |-> SDAbsent, text_segments |-> TSAbsent]

Responses ==
    {Object(sd, ts) : sd \in SDValues, ts \in TSValues}
        \cup {Failure(k) : k \in {"non_object", "parse_error",
                                  "token_error", "transport_error"}}

\* {"structured_data": {}, "text_segments": []}
EmptyResult == Object(SDMap(NoKeys), TSList(<<>>))

\* the texts handed to llm_extract: below the size threshold, and above it
\* with three paragraphs
ExtractTexts ==
    { <<"a", "b">>,
      <<"a", "a", "a", "a", NL, NL, "b", "b", "b", "b", NL, NL, "a", "b">> }

----------------------------------------------------------------------------
(* CorpusBuilder.llm_extract, llm_extract_chunked, _llm_extract_single_chunk *)

\* len(text) // 4
estimate_tokens(t) == Len(t) \div 4

\* faulty variant: an empty text_segments passes the validation
FalsyNever(ts) == FALSE

\* not result.get("text_segments")
Falsy(ts) == ts.tag \in {"absent", "null"} \/ (ts.tag = "list" /\ ts.items = <<>>)

\* len(x) raises TypeError
LenRaises(ts) == ts.tag \in {"null", "scalar"}

\* no service call yet
NoResponse == Failure("none")

\* the response r as last_response records it under outcome o
Recorded(r, o) ==
    IF o.do = "retry" THEN [r EXCEPT !.structured_data = SDAbsent] ELSE r

\* faulty variant: the attempt is counted from 1 and the wait grows linearly
Pow2Linear(att) == 2 * (att + 1)

\* 2 ** attempt
RECURSIVE Pow2(_)
Pow2(att) == IF att = 0 THEN 1 ELSE 2 * Pow2(att - 1)

\* faulty variant: there is always another attempt
LastAttemptNever(att) == FALSE

\* not "attempt < max_retries - 1"
LastAttempt(att) == ~(att < max_retries - 1)

Retry(seconds) ==
    [do |-> "retry", value |-> EmptyResult, failed |-> FALSE, sleep |-> seconds]

GiveUp == [do |-> "return", value |-> EmptyResult, failed |-> TRUE, sleep |-> 0]

Return(r) == [do |-> "return", value |-> r, failed |-> FALSE, sleep |-> 0]

Reroute == [do |-> "reroute", value |-> EmptyResult, failed |-> FALSE, sleep |-> 0]

\* One iteration of the retry loop of llm_extract on response r:
\* "retry" (continue, after asyncio.sleep), "return" (with value), or
\* "reroute" (to llm_extract_chunked).  A response that is no JSON object
\* makes result.get raise AttributeError inside the try block, and len() of
\* a null or scalar text_segments raises TypeError there: both reach the
\* generic except clause, whose message names no token limit.
DirectOutcome(r, att) ==
    LET generic == IF LastAttempt(att) THEN GiveUp ELSE Retry(Pow2(att))
    IN  CASE r.kind = "token_error" -> Reroute
          [] r.kind \in {"transport_error", "non_object"} -> generic
          [] r.kind = "parse_error" ->
                 IF LastAttempt(att) THEN GiveUp ELSE Retry(2)
          [] r.kind = "object" /\ Falsy(r.text_segments) /\ ~LastAttempt(att) ->
                 Retry(2)
          [] r.kind = "object" /\ LenRaises(r.text_segments)
                 /\ ~(Falsy(r.text_segments) /\ ~LastAttempt(att)) ->
                 generic
          [] OTHER -> Return(r)

\* One iteration of the retry loop of _llm_extract_single_chunk on r.
SingleChunkOutcome(r, att) ==
    CASE r.kind = "parse_error" ->
             IF LastAttempt(att) THEN GiveUp ELSE Retry(2)
      [] r.kind \in {"token_error", "transport_error", "non_object"} ->
             IF LastAttempt(att) THEN GiveUp ELSE Retry(Pow2(att))
      [] r.kind = "object" /\ Falsy(r.text_segments) /\ ~LastAttempt(att) ->
             Retry(2)
      [] OTHER -> Return(r)

\* faulty variant: a later chunk's value replaces the accumulated one
MergeValueOverwrite(acc, key, value) ==
    IF value.list THEN value ELSE ListValue(value.items)

\* the body of "for key, value in structured.items()" for one key
MergeValue(acc, key, value) ==
    IF key \notin DOMAIN acc
    THEN IF value.list THEN value ELSE ListValue(value.items)
    ELSE IF value.list
    THEN ListValue(acc[key].items \o value.items)
    ELSE IF acc[key].list
         THEN ListValue(acc[key].items \o value.items)
         ELSE ListValue(acc[key].items \o value.items)

\* for key, value in structured.items(): ...
MergeStructured(acc, structured) ==
    [key \in DOMAIN acc \cup DOMAIN structured |->
        IF key \in DOMAIN structured
        THEN MergeValue(acc, key, structured[key])
        ELSE acc[key]]

\* faulty variant: the segments of a chunk are put in front
ExtendSegmentsFront(all, segments) == segments \o all

\* all_text_segments.extend(segments)
ExtendSegments(all, segments) == all \o segments

\* structured.items() raises AttributeError on a non-mapping
\* structured_data; all_text_segments.extend raises TypeError on a null or
\* scalar text_segments
\* a call of logger.info, logger.warning or logger.error: its level, the
\* message template, and the exception the message prints, if any
LogLine(level, event, detail) == [level |-> level, event |-> event, detail |-> detail]

\* the calls of logger in one iteration of the retry loop of llm_extract.
\* The empty-result warning comes before the choice between retrying and
\* returning; len() in the success message raises for a null or scalar
\* text_segments, which the generic except clause then logs.
DirectLog(r, att) ==
    LET generic(detail) ==
            <<LogLine("error", "llm_error", detail)>>
                \o (IF LastAttempt(att)
                    THEN <<LogLine("error", "llm_final_failure", detail)>>
                    ELSE <<>>)
        empty ==
            IF Falsy(r.text_segments)
            THEN <<LogLine("warning", "empty_result", "")>>
                     \o (IF LastAttempt(att)
                         THEN <<LogLine("error", "empty_after_all_retries", "")>>
                         ELSE <<>>)
            ELSE <<>>
    IN  CASE r.kind = "token_error" -> <<LogLine("error", "llm_error", r.kind)>>
          [] r.kind \in {"transport_error", "non_object"} -> generic(r.kind)
          [] r.kind = "parse_error" ->
                 <<LogLine("error", "json_error", r.kind)>>
                     \o (IF LastAttempt(att)
                         THEN <<LogLine("error", "json_final_failure", r.kind)>>
                         ELSE <<>>)
          [] r.kind = "object" /\ Falsy(r.text_segments) /\ ~LastAttempt(att) ->
                 empty
          [] r.kind = "object" /\ LenRaises(r.text_segments)
                 /\ ~(Falsy(r.text_segments) /\ ~LastAttempt(att)) ->
                 empty \o generic("type_error")
          [] OTHER -> empty \o <<LogLine("info", "extracted", "")>>

\* the calls of logger in one iteration of the retry loop of
\* _llm_extract_single_chunk
SingleChunkLog(r, att) ==
    CASE r.kind = "parse_error" -> <<LogLine("error", "chunk_json_error", r.kind)>>
      [] r.kind \in {"token_error", "transport_error", "non_object"} ->
             <<LogLine("error", "chunk_error", r.kind)>>
      [] r.kind = "object" /\ Falsy(r.text_segments) /\ ~LastAttempt(att) ->
             <<LogLine("warning", "chunk_empty_result", "")>>
      [] OTHER -> <<>>

\* the calls of logger in llm_extract_chunked before the first service call
\* on chunks cs
ChunkedLog(cs) ==
    <<LogLine("info", "split_into_chunks", "")>>
        \o (IF cs = <<>> THEN <<LogLine("info", "chunked_done", "")>>
            ELSE <<LogLine("info", "chunk_started", "")>>)

MergeRaises(r) ==
    \/ r.structured_data.tag = "nonmapping"
    \/ r.text_segments.tag \in {"null", "scalar"}

ExtractIdle ==
    /\ ex_pc = "idle"
    /\ attempt = 0
    /\ chunk_i = 0
    /\ all_structured_data = NoKeys
    /\ all_text_segments = <<>>
    /\ chunk_results = <<>>
    /\ result = EmptyResult
    /\ ex_failed = FALSE
    /\ service_calls = 0
    /\ last_response = NoResponse
    /\ last_sleep = 0
    /\ chunked_calls = 0
    /\ logged = <<>>

\* return await self.llm_extract_chunked(text, ticker), up to the first
\* service call
EnterChunked ==
    LET cs == split_text_into_chunks(text, max_tokens) IN
    /\ chunks' = cs
    /\ all_structured_data' = NoKeys
    /\ all_text_segments' = <<>>
    /\ chunk_results' = <<>>
    /\ attempt' = 0
    /\ ex_failed' = FALSE
    /\ chunked_calls' = chunked_calls + 1
    /\ IF cs = <<>>
       THEN /\ ex_pc' = "returned"
            /\ chunk_i' = 0
            /\ result' = EmptyResult
       ELSE /\ ex_pc' = "chunked"
            /\ chunk_i' = 1
            /\ result' = result

\* llm_extract up to its first service call
llm_extract ==
    /\ ex_pc = "called"
    /\ IF estimate_tokens(text) > max_tokens
       THEN EnterChunked
       ELSE /\ ex_pc' = "direct"
            /\ attempt' = 0
            /\ UNCHANGED <<chunks, chunk_i, all_structured_data,
                           all_text_segments, chunk_results, result,
                           ex_failed, chunked_calls>>
    /\ logged' = IF estimate_tokens(text) > max_tokens
                 THEN <<LogLine("warning", "text_too_long", "")>>
                          \o ChunkedLog(split_text_into_chunks(text, max_tokens))
                 ELSE <<>>
    /\ UNCHANGED <<service_calls, last_response, last_sleep>>
    /\ UNCHANGED <<text, max_tokens, split_pc>>
    /\ UNCHANGED <<batchVars, dbVars>>

\* one attempt of llm_extract: the service call and what follows it
DirectAttempt(r) ==
    /\ ex_pc = "direct"
    /\ LET o == DirectOutcome(r, attempt) IN
       CASE o.do = "retry" ->
                /\ attempt' = attempt + 1
                /\ UNCHANGED <<ex_pc, chunks, chunk_i, all_structured_data,
                               all_text_segments, chunk_results, result,
                               ex_failed, chunked_calls>>
         [] o.do = "return" ->
                /\ ex_pc' = "returned"
                /\ result' = o.value
                /\ ex_failed' = o.failed
                /\ UNCHANGED <<attempt, chunks, chunk_i, all_structured_data,
                               all_text_segments, chunk_results, chunked_calls>>
         [] o.do = "reroute" ->
                EnterChunked
    /\ service_calls' = service_calls + 1
    /\ last_response' = Recorded(r, DirectOutcome(r, attempt))
    /\ last_sleep' = DirectOutcome(r, attempt).sleep
    /\ logged' = DirectLog(r, attempt)
                     \o (IF DirectOutcome(r, attempt).do = "reroute"
                         THEN ChunkedLog(split_text_into_chunks(text, max_tokens))
                         ELSE <<>>)
    /\ UNCHANGED <<text, max_tokens, split_pc>>
    /\ UNCHANGED <<batchVars, dbVars>>

\* one attempt of _llm_extract_single_chunk on chunk chunk_i; when it
\* returns, llm_extract_chunked merges the result and goes on to the next
\* chunk or returns
ChunkAttempt(r) ==
    /\ ex_pc = "chunked"
    /\ LET o == SingleChunkOutcome(r, attempt) IN
       IF o.do = "retry"
       THEN /\ attempt' = attempt + 1
            /\ UNCHANGED <<ex_pc, chunk_i, all_structured_data,
                           all_text_segments, chunk_results, result>>
       ELSE LET res == o.value
                sd == IF res.structured_data.tag = "map"
                      THEN MergeStructured(all_structured_data,
                                           res.structured_data.map)
                      ELSE all_structured_data
                ts == ExtendSegments(all_text_segments, res.text_segments.items)
            IN  /\ chunk_results' =
                       Append(chunk_results, [value |-> res, failed |-> o.failed])
                /\ attempt' = 0
                /\ IF MergeRaises(res)
                   THEN /\ ex_pc' = "raised"
                        /\ UNCHANGED <<chunk_i, all_structured_data,
                                       all_text_segments, result>>
                   ELSE /\ all_structured_data' = sd
                        /\ all_text_segments' = ts
                        /\ IF chunk_i < Len(chunks)
                           THEN /\ chunk_i' = chunk_i + 1
                                /\ UNCHANGED <<ex_pc, result>>
                           ELSE /\ ex_pc' = "returned"
                                /\ result' = Object(SDMap(sd), TSList(ts))
                                /\ UNCHANGED chunk_i
    /\ service_calls' = service_calls + 1
    /\ last_response' = Recorded(r, SingleChunkOutcome(r, attempt))
    /\ last_sleep' = SingleChunkOutcome(r, attempt).sleep
    /\ logged' = SingleChunkLog(r, attempt)
                     \o (IF SingleChunkOutcome(r, attempt).do = "retry"
                            \/ MergeRaises(SingleChunkOutcome(r, attempt).value)
                         THEN <<>>
                         ELSE IF chunk_i < Len(chunks)
                         THEN <<LogLine("info", "chunk_started", "")>>
                         ELSE <<LogLine("info", "chunked_done", "")>>)
    /\ UNCHANGED <<text, max_tokens, split_pc, chunks, ex_failed, chunked_calls>>
    /\ UNCHANGED <<batchVars, dbVars>>

----------------------------------------------------------------------------
(* CorpusBuilder.build_corpus_batch                                        *)

Files == 1..NumFiles

\* html_files, in input order
html_files == [i \in Files |-> i]

NoOutcome == [file |-> 0, kind |-> "none", segments_count |-> 0]

\* the dict build_corpus_for_report returns
ReportDict(f, n) == [file |-> f, kind |-> "dict", segments_count |-> n]

\* the exception build_corpus_for_report re-raises
ReportException(f) == [file |-> f, kind |-> "exception", segments_count |-> 0]

\* faulty variant: a task enters although no slot is free
SlotFreeAlways(v) == v >= 0

\* Semaphore.acquire passes without waiting only while the value is positive
SlotFree(v) == v > 0

\* faulty variant: the slot of a failed document is kept
ReleaseOnExceptionMissing(v) == v

\* "async with semaphore" leaves through an exception: __aexit__ releases
ReleaseOnException(v) == v + 1

\* "async with semaphore" leaves through return: __aexit__ releases
ReleaseOnReturn(v) == v + 1

\* what asyncio.gather(*tasks, return_exceptions=True) returns: one entry
\* per task, in the order of the tasks
GatherResults(out) == [i \in 1..Len(html_files) |-> out[html_files[i]]]

\* isinstance(r, dict) and r.get('segments_count', 0) > 0
IsSuccess(r) == r.kind = "dict" /\ r.segments_count > 0
\* isinstance(r, dict) and r.get('segments_count', 0) == 0
IsEmpty(r) == r.kind = "dict" /\ r.segments_count = 0
\* not isinstance(r, dict)
IsError(r) == r.kind # "dict"

\* sum(1 for r in results if ...)
CountSuccess(rs) == Cardinality({i \in 1..Len(rs) : IsSuccess(rs[i])})
CountEmpty(rs) == Cardinality({i \in 1..Len(rs) : IsEmpty(rs[i])})
CountError(rs) == Cardinality({i \in 1..Len(rs) : IsError(rs[i])})

\* extract_keywords_from_corpus has not been called
KeywordsIdle ==
    /\ kw_pc = "idle"
    /\ years = <<>>
    /\ kw_semaphore = 0
    /\ kw_task = <<>>
    /\ kw_result = <<>>
    /\ all_years_keywords = <<>>

BatchIdle ==
    /\ KeywordsIdle
    /\ batch_pc = "idle"
    /\ semaphore = 0
    /\ task_pc = [f \in Files |-> "created"]
    /\ outcome = [f \in Files |-> NoOutcome]
    /\ finished = <<>>
    /\ results = <<>>
    /\ success_count = 0
    /\ failed_count = 0
    /\ error_count = 0

\* process_with_semaphore(file) starts: it takes a slot or waits for one
StartTask(f) ==
    /\ batch_pc = "gathering"
    /\ task_pc[f] = "created"
    /\ IF SlotFree(semaphore)
       THEN /\ semaphore' = semaphore - 1
            /\ task_pc' = [task_pc EXCEPT ![f] = "running"]
       ELSE /\ task_pc' = [task_pc EXCEPT ![f] = "waiting"]
            /\ UNCHANGED semaphore
    /\ UNCHANGED <<batch_pc, outcome, finished, results,
                   success_count, failed_count, error_count>>
    /\ UNCHANGED <<chunkVars, extractVars, dbVars, keywordVars>>

\* a waiting task is woken once a slot is free
AdmitTask(f) ==
    /\ task_pc[f] = "waiting"
    /\ SlotFree(semaphore)
    /\ semaphore' = semaphore - 1
    /\ task_pc' = [task_pc EXCEPT ![f] = "running"]
    /\ UNCHANGED <<batch_pc, outcome, finished, results,
                   success_count, failed_count, error_count>>
    /\ UNCHANGED <<chunkVars, extractVars, dbVars, keywordVars>>

\* build_corpus_for_report reaches "await self.llm_extract(...)"
BeginExtraction(f) ==
    /\ task_pc[f] = "running"
    /\ task_pc' = [task_pc EXCEPT ![f] = "extracting"]
    /\ UNCHANGED <<batch_pc, semaphore, outcome, finished, results,
                   success_count, failed_count, error_count>>
    /\ UNCHANGED <<chunkVars, extractVars, dbVars, keywordVars>>

\* build_corpus_for_report raises (metadata, parsing, extraction or a
\* database write): logged, re-raised, the slot released
ReportRaises(f) ==
    /\ task_pc[f] \in {"running", "extracting"}
    /\ task_pc' = [task_pc EXCEPT ![f] = "done"]
    /\ outcome' = [outcome EXCEPT ![f] = ReportException(f)]
    /\ semaphore' = ReleaseOnException(semaphore)
    /\ finished' = Append(finished, f)
    /\ UNCHANGED <<batch_pc, results, success_count, failed_count, error_count>>
    /\ UNCHANGED <<chunkVars, extractVars, dbVars, keywordVars>>

\* build_corpus_for_report returns its dict with n segments
ReportReturns(f, n) ==
    /\ task_pc[f] = "extracting"
    /\ task_pc' = [task_pc EXCEPT ![f] = "done"]
    /\ outcome' = [outcome EXCEPT ![f] = ReportDict(f, n)]
    /\ semaphore' = ReleaseOnReturn(semaphore)
    /\ finished' = Append(finished, f)
    /\ UNCHANGED <<batch_pc, results, success_count, failed_count, error_count>>
    /\ UNCHANGED <<chunkVars, extractVars, dbVars, keywordVars>>

\* gather returns once every task is done; the three counts are taken
GatherReturns ==
    /\ batch_pc = "gathering"
    /\ \A f \in Files : task_pc[f] = "done"
    /\ LET rs == GatherResults(outcome) IN
       /\ results' = rs
       /\ success_count' = CountSuccess(rs)
       /\ failed_count' = CountEmpty(rs)
       /\ error_count' = CountError(rs)
    /\ batch_pc' = "returned"
    /\ UNCHANGED <<semaphore, task_pc, outcome, finished>>
    /\ UNCHANGED <<chunkVars, extractVars, dbVars, keywordVars>>

----------------------------------------------------------------------------
(* DatabaseManagerV2: the tables the TF-IDF step reads and writes          *)

\* the years with tables (the code creates 2002..2024)
Years == {2023, 2024}

\* the year the specifications of a single year work on
SingleYear == {2024}

\* the tickers, in the order of ORDER BY ticker
TickerOrder == <<"AAA", "BBB">>
Tickers == {TickerOrder[i] : i \in 1..Len(TickerOrder)}

\* the texts of the segments an extraction stores
SegTexts == { <<"A", " ", "b">>, <<"b">> }

\* the keyword rows keyword extraction stores
KeywordChoices ==
    { [keyword |-> <<"A">>, category |-> "expansion"],
      [keyword |-> <<"b">>, category |-> "contraction"],
      [keyword |-> <<"c">>, category |-> "china_positive"] }

\* non-empty lists of at most two elements of S
ShortLists(S) == {<<x>> : x \in S} \cup {<<x, y>> : x \in S, y \in S}

DatabaseEmpty ==
    /\ companies = [y \in Years |-> {}]
    /\ corpus = [y \in Years |-> <<>>]
    /\ keywords = <<>>
    /\ tfidf_scores = [y \in Years |-> <<>>]
    /\ tfidf_calls = [y \in Years |-> 0]
    /\ tfidf_runs = [y \in Years |-> 0]
    /\ quantitative_scores = [y \in Years |-> <<>>]
    /\ score_calls = [y \in Years |-> 0]
    /\ score_input = [y \in Years |-> [t \in Tickers |-> <<>>]]
    /\ year_keywords = <<>>
    /\ writer = "none"
    /\ write_pc = "idle"
    /\ write_attempt = 0
    /\ write_sleeps = <<>>
    /\ write_error = "none"
    /\ committed = <<>>

\* SELECT ticker ... FROM companies_<year> ORDER BY ticker
get_companies_by_year(y) ==
    SelectSeq(TickerOrder, LAMBDA t : t \in companies[y])

\* faulty variant: the rows of every year are read
GetCorpusTextsAllYears(y) == corpus[2023] \o corpus[2024]

\* SELECT ticker, text_segment, ... FROM corpus_<year>
get_corpus_texts_by_year(y) == corpus[y]

\* SELECT text_segment FROM corpus_<year> WHERE ticker = ?
get_company_corpus_texts(t, y) ==
    LET rows == SelectSeq(corpus[y], LAMBDA row : row.ticker = t)
    IN  [i \in 1..Len(rows) |-> rows[i].text]

\* SELECT keyword, keyword_category FROM keywords
get_all_keywords == keywords

\* faulty variant: INSERT OR REPLACE, the stored row gives way to the new one
RECURSIVE InsertOrReplaceKeyword(_, _)
InsertOrReplaceKeyword(table, kws) ==
    IF kws = <<>> THEN table
    ELSE InsertOrReplaceKeyword(
             Append(SelectSeq(table, LAMBDA r : r.keyword # Head(kws).keyword),
                    Head(kws)),
             Tail(kws))

\* INSERT OR IGNORE INTO keywords, row by row: a keyword text already in the
\* table is skipped
RECURSIVE InsertOrIgnore(_, _)
InsertOrIgnore(table, kws) ==
    IF kws = <<>> THEN table
    ELSE LET kw == Head(kws)
             present == \E i \in 1..Len(table) : table[i].keyword = kw.keyword
         IN  InsertOrIgnore(IF present THEN table ELSE Append(table, kw),
                            Tail(kws))

----------------------------------------------------------------------------
(* String operations of the TF-IDF step                                    *)

\* str.lower(), character by character
LowerChar(c) ==
    CASE c = "A" -> "a"
      [] c = "B" -> "b"
      [] c = "C" -> "c"
      [] OTHER -> c

Lower(s) == [i \in 1..Len(s) |-> LowerChar(s[i])]

\* " ".join(texts)
RECURSIVE JoinSpace(_)
JoinSpace(texts) ==
    IF texts = <<>> THEN <<>>
    ELSE IF Len(texts) = 1 THEN texts[1]
    ELSE texts[1] \o <<" ">> \o JoinSpace(Tail(texts))

\* sub occurs in s at position i
OccursAt(s, sub, i) ==
    /\ i + Len(sub) - 1 <= Len(s)
    /\ \A j \in 1..Len(sub) : s[i + j - 1] = sub[j]

\* sub in s
Contains(s, sub) == \E i \in 1..(Len(s) + 1) : OccursAt(s, sub, i)

\* s.count(sub) from position i on: non-overlapping occurrences, left to right
RECURSIVE CountFrom(_, _, _)
CountFrom(s, sub, i) ==
    IF i > Len(s) + 1 THEN 0
    ELSE IF OccursAt(s, sub, i)
    THEN 1 + CountFrom(s, sub, i + (IF Len(sub) = 0 THEN 1 ELSE Len(sub)))
    ELSE CountFrom(s, sub, i + 1)

Count(s, sub) == CountFrom(s, sub, 1)

\* len(s.split()): the number of maximal runs of non-whitespace characters
WordCount(s) ==
    Cardinality({i \in 1..Len(s) :
        /\ s[i] \notin Whitespace
        /\ (i = 1 \/ s[i - 1] \in Whitespace)})

----------------------------------------------------------------------------
(* TFIDFCalculator.calculate_tfidf_for_year                                *)

\* numbers: a quotient num/den of integers with den > 0
Quotient(n, d) == [num |-> n, den |-> d]

\* math.log(k) in tenths, k = 1..8: the values grow with k as the logarithm
\* does, and the tenths keep the numbers of the score step small
LnTenths == <<0, 7, 11, 14, 16, 18, 19, 21>>

\* math.log(n / c) in tenths
Log(n, c) == LnTenths[n] - LnTenths[c]

\* all_texts = [item['text'] for item in corpus_data if item['text']]
all_texts(y) ==
    LET rows == SelectSeq(get_corpus_texts_by_year(y), LAMBDA row : row.text # <<>>)
    IN  [i \in 1..Len(rows) |-> rows[i].text]

\* full_corpus = " ".join(all_texts).lower()
full_corpus(y) == Lower(JoinSpace(all_texts(y)))

\* sum(1 for text in all_texts if kw_text in text.lower())
segment_count(y, kw_text) ==
    Cardinality({i \in 1..Len(all_texts(y)) :
                    Contains(Lower(all_texts(y)[i]), kw_text)})

\* tf = kw_count / total_words if total_words > 0 else 0
TermFrequency(y, kw_text) ==
    LET total_words == WordCount(full_corpus(y))
    IN  IF total_words > 0
        THEN Quotient(Count(full_corpus(y), kw_text), total_words)
        ELSE Quotient(0, 1)

\* faulty variant: a smoothed logarithm, positive for a keyword of every
\* segment
InverseDocumentFrequencySmoothed(y, kw_text) ==
    IF segment_count(y, kw_text) > 0
    THEN Log(Len(all_texts(y)) + 1, segment_count(y, kw_text))
    ELSE 0

\* idf = math.log(total_segments / segment_count) if segment_count > 0 else 0
InverseDocumentFrequency(y, kw_text) ==
    IF segment_count(y, kw_text) > 0
    THEN Log(Len(all_texts(y)), segment_count(y, kw_text))
    ELSE 0

\* faulty variant: keywords of weight zero are kept
KeepKeywordNonNegative(tfidf) == tfidf.num >= 0

\* if tfidf > 0
KeepKeyword(tfidf) == tfidf.num > 0

\* year_tfidf[kw_text] = {...}: a new key goes last, a known key keeps its
\* place and takes the new value
DictPut(dict, entry) ==
    IF \E i \in 1..Len(dict) : dict[i].keyword = entry.keyword
    THEN [i \in 1..Len(dict) |->
             IF dict[i].keyword = entry.keyword THEN entry ELSE dict[i]]
    ELSE Append(dict, entry)

\* the loop "for keyword in keywords" from keyword i on
RECURSIVE YearTfidfFrom(_, _, _, _)
YearTfidfFrom(y, kws, i, dict) ==
    IF i > Len(kws) THEN dict
    ELSE LET kw_text == Lower(kws[i].keyword)
             tf == TermFrequency(y, kw_text)
             idf == InverseDocumentFrequency(y, kw_text)
             tfidf == Quotient(tf.num * idf, tf.den)
         IN  YearTfidfFrom(y, kws, i + 1,
                 IF KeepKeyword(tfidf)
                 THEN DictPut(dict, [keyword |-> kw_text,
                                     category |-> kws[i].category,
                                     tf |-> tf, idf |-> idf, tfidf |-> tfidf])
                 ELSE dict)

year_tfidf(y, kws) == YearTfidfFrom(y, kws, 1, <<>>)

\* the rows of one company: one per kept keyword found in its own text
CompanyRows(y, t, dict) ==
    LET company_text == Lower(JoinSpace(get_company_corpus_texts(t, y)))
        found == SelectSeq(dict, LAMBDA e : Contains(company_text, e.keyword))
    IN  [i \in 1..Len(found) |->
            [ticker |-> t, keyword |-> found[i].keyword,
             keyword_category |-> found[i].category,
             tf |-> found[i].tf, idf |-> found[i].idf,
             tfidf |-> found[i].tfidf]]

\* the loop "for company in companies"
RECURSIVE AllScoresFrom(_, _, _, _)
AllScoresFrom(y, cs, i, dict) ==
    IF i > Len(cs) THEN <<>>
    ELSE CompanyRows(y, cs[i], dict) \o AllScoresFrom(y, cs, i + 1, dict)

\* all_scores as calculate_tfidf_for_year hands it to save_tfidf_scores;
\* nothing when the year has no text or no company
all_scores(y, kws) ==
    IF all_texts(y) = <<>> \/ get_companies_by_year(y) = <<>>
    THEN <<>>
    ELSE AllScoresFrom(y, get_companies_by_year(y), 1, year_tfidf(y, kws))

\* save_tfidf_scores: INSERT INTO tfidf_scores_<year>, nothing when scores
\* is empty
SaveTfidf(table, scores) == IF scores = <<>> THEN table ELSE table \o scores

\* save_company(ticker, data_year, ...): INSERT OR REPLACE
save_company(t, y) ==
    /\ companies' = [companies EXCEPT ![y] = @ \cup {t}]
    /\ tfidf_runs' = [tfidf_runs EXCEPT ![y] = IF t \in companies[y] THEN @ ELSE 0]
    /\ UNCHANGED <<corpus, keywords, tfidf_scores, tfidf_calls>>
    /\ UNCHANGED <<quantitative_scores, score_calls, score_input, year_keywords,
                   writeVars>>
    /\ UNCHANGED <<chunkVars, extractVars, batchVars>>

\* save_text_segments(ticker, data_year, segments) with a non-empty list
save_text_segments(t, y, segments) ==
    /\ Len(corpus[y]) + Len(segments) <= MaxSegments
    /\ corpus' = [corpus EXCEPT ![y] =
           @ \o [i \in 1..Len(segments) |-> [ticker |-> t, text |-> segments[i]]]]
    /\ tfidf_runs' = [tfidf_runs EXCEPT ![y] = 0]
    /\ UNCHANGED <<companies, keywords, tfidf_scores, tfidf_calls>>
    /\ UNCHANGED <<quantitative_scores, score_calls, score_input, year_keywords,
                   writeVars>>
    /\ UNCHANGED <<chunkVars, extractVars, batchVars>>

\* save_keywords(keywords)
save_keywords(kws) ==
    /\ Len(InsertOrIgnore(keywords, kws)) <= MaxKeywords
    /\ keywords' = InsertOrIgnore(keywords, kws)
    /\ tfidf_runs' = IF keywords' = keywords
                     THEN tfidf_runs ELSE [y \in Years |-> 0]
    /\ UNCHANGED <<companies, corpus, tfidf_scores, tfidf_calls>>
    /\ UNCHANGED <<quantitative_scores, score_calls, score_input, year_keywords,
                   writeVars>>
    /\ UNCHANGED <<chunkVars, extractVars, batchVars>>

\* calculate_tfidf_for_year(data_year, keywords) with the keywords read from
\* the table just before
calculate_tfidf_for_year(y) ==
    /\ tfidf_calls[y] < MaxTfidfRuns
    /\ tfidf_scores' = [tfidf_scores EXCEPT ![y] =
           SaveTfidf(@, all_scores(y, get_all_keywords))]
    /\ tfidf_calls' = [tfidf_calls EXCEPT ![y] = @ + 1]
    /\ tfidf_runs' = [tfidf_runs EXCEPT ![y] = @ + 1]
    /\ UNCHANGED <<companies, corpus, keywords>>
    /\ UNCHANGED <<quantitative_scores, score_calls, score_input, year_keywords,
                   writeVars>>
    /\ UNCHANGED <<chunkVars, extractVars, batchVars>>

----------------------------------------------------------------------------
(* Numbers of the score step                                               *)
(*                                                                         *)
(* A number is a quotient num/den of two polynomials in eps with integer   *)
(* coefficients, <<c0, c1, c2>> standing for c0 + c1*eps + c2*eps^2, and   *)
(* den > 0.  With eps = 1e-9 and every coefficient below 10^9 in absolute  *)
(* value the sign of a polynomial is the sign of its first non-zero        *)
(* coefficient, so sums, products, quotients and comparisons are those of  *)
(* the real numbers; the rounding of the floating-point operations is left *)
(* out.                                                                    *)

\* coefficient i of p, 0 beyond its length
Coef(p, i) == IF i <= Len(p) THEN p[i] ELSE 0

PMaxLen(p, q) == IF Len(p) >= Len(q) THEN Len(p) ELSE Len(q)

PAdd(p, q) == [i \in 1..PMaxLen(p, q) |-> Coef(p, i) + Coef(q, i)]

PNeg(p) == [i \in 1..Len(p) |-> 0 - p[i]]

\* sum of p[i] * q[k + 1 - i] for i = from..Len(p)
RECURSIVE ConvSum(_, _, _, _)
ConvSum(p, q, k, from) ==
    IF from > Len(p) \/ from > k THEN 0
    ELSE p[from] * Coef(q, k + 1 - from) + ConvSum(p, q, k, from + 1)

PMul(p, q) == [k \in 1..(Len(p) + Len(q) - 1) |-> ConvSum(p, q, k, 1)]

\* sign of the first non-zero coefficient
RECURSIVE PSign(_)
PSign(p) ==
    IF p = <<>> THEN 0
    ELSE IF Head(p) > 0 THEN 1
    ELSE IF Head(p) < 0 THEN 0 - 1
    ELSE PSign(Tail(p))

Abs(n) == IF n < 0 THEN 0 - n ELSE n

RECURSIVE GCD(_, _)
GCD(a, b) == IF b = 0 THEN Abs(a) ELSE GCD(b, a % Abs(b))

RECURSIVE PContent(_)
PContent(p) == IF p = <<>> THEN 0 ELSE GCD(Head(p), PContent(Tail(p)))

\* p without its trailing zero coefficients, one coefficient at least
RECURSIVE PTrim(_)
PTrim(p) ==
    IF Len(p) > 1 /\ p[Len(p)] = 0 THEN PTrim(SubSeq(p, 1, Len(p) - 1)) ELSE p

\* the quotient n/d in lowest integer terms, d made positive
Real(n, d) ==
    LET g == GCD(PContent(n), PContent(d))
        s == IF PSign(d) < 0 THEN 0 - g ELSE g
    IN  IF PSign(n) = 0 THEN [num |-> <<0>>, den |-> <<1>>]
        ELSE [num |-> PTrim([i \in 1..Len(n) |-> n[i] \div s]),
              den |-> PTrim([i \in 1..Len(d) |-> d[i] \div s])]

RInt(n) == [num |-> <<n>>, den |-> <<1>>]

RAdd(a, b) ==
    IF a.den = b.den THEN Real(PAdd(a.num, b.num), a.den)
    ELSE Real(PAdd(PMul(a.num, b.den), PMul(b.num, a.den)), PMul(a.den, b.den))

RSub(a, b) == RAdd(a, [num |-> PNeg(b.num), den |-> b.den])

RMul(a, b) == Real(PMul(a.num, b.num), PMul(a.den, b.den))

\* a / b for b # 0
RDiv(a, b) ==
    IF a.den = b.den THEN Real(a.num, b.num)
    ELSE Real(PMul(a.num, b.den), PMul(a.den, b.num))

RSign(a) == PSign(a.num)

REq(a, b) == RSign(RSub(a, b)) = 0

RLess(a, b) == RSign(RSub(a, b)) < 0

\* max(a, b) and min(a, b) of Python: the first argument unless the second
\* is strictly beyond it
RMax(a, b) == IF RLess(a, b) THEN b ELSE a

RMin(a, b) == IF RLess(b, a) THEN b ELSE a

RAbs(a) == IF RSign(a) < 0 THEN RSub(RInt(0), a) ELSE a

\* a stored REAL: the quotient num/den counted in tenths
Stored(q) == Real(<<q.num>>, <<q.den * 10>>)

\* self.eps = 1e-9
self_eps == [num |-> <<0, 1>>, den |-> <<1>>]

\* self.k = 5.0
self_k == RInt(5)

\* np.log1p(x) for x >= 0, replaced by 2x / (2 + x): 0 at 0, positive and
\* increasing for x > 0, never above log1p(x)
Log1p(x) == RDiv(RMul(RInt(2), x), RAdd(RInt(2), x))

RECURSIVE RSum(_)
RSum(xs) == IF xs = <<>> THEN RInt(0) ELSE RAdd(RSum(SubSeq(xs, 1, Len(xs) - 1)), xs[Len(xs)])

\* np.mean(xs)
np_mean(xs) == RDiv(RSum(xs), RInt(Len(xs)))

\* np.std(xs): 0 when all values are equal, half the distance of the two
\* values of a list of two
np_std(xs) ==
    IF \A i \in 1..Len(xs) : REq(xs[i], xs[1]) THEN RInt(0)
    ELSE RDiv(RAbs(RSub(xs[1], xs[2])), RInt(2))

----------------------------------------------------------------------------
(* ScoreCalculator and the score table                                     *)

\* SELECT keyword, keyword_category, tf, idf, tfidf FROM tfidf_scores_<year>
\* WHERE ticker = ?
get_tfidf_scores(t, y) == SelectSeq(tfidf_scores[y], LAMBDA row : row.ticker = t)

\* sum(row['tfidf'] for row in tfidf_data if row['keyword_category'] == cat)
CategorySum(tfidf_data, cat) ==
    LET rows == SelectSeq(tfidf_data, LAMBDA row : row.keyword_category = cat)
    IN  RSum([i \in 1..Len(rows) |-> Stored(rows[i].tfidf)])

calculate_company_scores(tfidf_data) ==
    LET expansion == CategorySum(tfidf_data, "expansion")
        contraction == CategorySum(tfidf_data, "contraction")
        china_positive == CategorySum(tfidf_data, "china_positive")
        china_negative == CategorySum(tfidf_data, "china_negative")
        non_china == CategorySum(tfidf_data, "non_china_regions")
    IN  [expansion_score |-> expansion,
         contraction_score |-> contraction,
         china_positive_score |-> china_positive,
         china_negative_score |-> china_negative,
         non_china_raw_score |-> non_china,
         total_tfidf |-> RAdd(RAdd(RAdd(RAdd(RAdd(expansion, contraction),
                             china_positive), china_negative), non_china),
                             self_eps),
         total_keywords_count |-> Len(tfidf_data)]

\* faulty variant: a company without TF-IDF rows is scored as well
HasTfidfDataAlways(t, y) == TRUE

\* not "if not tfidf_data: continue"
HasTfidfData(t, y) == get_tfidf_scores(t, y) # <<>>

\* what calculate_scores_for_year reads: the TF-IDF rows of each company of
\* the year
ScoreInput(y) ==
    [t \in Tickers |-> IF t \in companies[y] THEN get_tfidf_scores(t, y) ELSE <<>>]

\* raw_scores: one entry per company of the year that has TF-IDF rows, in
\* the order of get_companies_by_year
raw_scores(y) ==
    LET cs == SelectSeq(get_companies_by_year(y), LAMBDA t : HasTfidfData(t, y))
    IN  [i \in 1..Len(cs) |->
            [ticker |-> cs[i],
             scores |-> calculate_company_scores(get_tfidf_scores(cs[i], y))]]

\* faulty variant: a single pass, the distribution holds the first company
\* only
NonChinaDensitiesFirst(raw) ==
    <<RDiv(raw[1].scores.non_china_raw_score, raw[1].scores.total_tfidf)>>

\* non_china_densities
non_china_densities(raw) ==
    [i \in 1..Len(raw) |->
        RDiv(raw[i].scores.non_china_raw_score, raw[i].scores.total_tfidf)]

\* faulty variant: the density correction is not clamped
ClampNone(x) == x

\* max(0, min(100, x))
Clamp(x) == RMax(RInt(0), RMin(RInt(100), x))

\* faulty variant: the two densities change places
NSSReversed(pos_d, neg_d) ==
    RDiv(RSub(neg_d, pos_d), RAdd(RAdd(pos_d, neg_d), self_eps))

\* NSS = (pos_d - neg_d) / (pos_d + neg_d + self.eps)
NSS(pos_d, neg_d) ==
    RDiv(RSub(pos_d, neg_d), RAdd(RAdd(pos_d, neg_d), self_eps))

\* 50 + (attitude_NSS - 50) * density_factor for the pair (pos, neg), clamped
DensityCorrected(pos, neg, total_tfidf) ==
    LET pos_d == RDiv(pos, total_tfidf)
        neg_d == RDiv(neg, total_tfidf)
        attitude_NSS == RMul(RAdd(NSS(pos_d, neg_d), RInt(1)), RInt(50))
        density_factor == Log1p(RMul(self_k, total_tfidf))
    IN  Clamp(RAdd(RInt(50), RMul(RSub(attitude_NSS, RInt(50)), density_factor)))

\* faulty variant: a pair of zero densities is normalised to 0
NeutralDensityZero == RInt(0)

\* 50.0, the value of both normalised densities when both are zero
NeutralDensity == RInt(50)

\* faulty variant: the ratio is not brought to the scale of 100
NormalizedDensityUnscaled(density, max_density) ==
    IF RSign(max_density) > 0
    THEN RDiv(density, max_density)
    ELSE NeutralDensity

\* (density / max_density) * 100, or the neutral value when max_density = 0
NormalizedDensity(density, max_density) ==
    IF RSign(max_density) > 0
    THEN RMul(RDiv(density, max_density), RInt(100))
    ELSE NeutralDensity

\* the keyword arguments of save_quantitative_scores for one company
\* (calculation_date, the time of the call, is left out)
QuantScore(entry, nc_d_mean, nc_d_std) ==
    LET scores == entry.scores
        total_tfidf == scores.total_tfidf
        nc_d == RDiv(scores.non_china_raw_score, total_tfidf)
        nc_z == RDiv(RSub(nc_d, nc_d_mean), nc_d_std)
        china_investment_density ==
            RMul(RDiv(scores.china_positive_score, total_tfidf), RInt(100))
        non_china_investment_density ==
            RMul(RDiv(scores.non_china_raw_score, total_tfidf), RInt(100))
        max_density == RMax(china_investment_density, non_china_investment_density)
    IN  [ticker |-> entry.ticker,
         investment_attitude_score |->
             DensityCorrected(scores.expansion_score, scores.contraction_score,
                              total_tfidf),
         expansion_score |-> scores.expansion_score,
         contraction_score |-> scores.contraction_score,
         china_investment_score |->
             DensityCorrected(scores.china_positive_score,
                              scores.china_negative_score, total_tfidf),
         china_positive_score |-> scores.china_positive_score,
         china_negative_score |-> scores.china_negative_score,
         non_china_investment_score |->
             Clamp(RAdd(RMul(nc_z, RInt(10)), RInt(50))),
         non_china_raw_score |-> scores.non_china_raw_score,
         china_investment_density |-> china_investment_density,
         non_china_investment_density |-> non_china_investment_density,
         china_investment_density_normalized |->
             NormalizedDensity(china_investment_density, max_density),
         non_china_investment_density_normalized |->
             NormalizedDensity(non_china_investment_density, max_density),
         total_keywords_count |-> scores.total_keywords_count]

\* the rows calculate_scores_for_year saves, in the order it saves them
final_scores(y) ==
    LET raw == raw_scores(y)
    IN  IF raw = <<>> THEN <<>>
        ELSE LET nc_d_mean == np_mean(non_china_densities(raw))
                 nc_d_std == RAdd(np_std(non_china_densities(raw)), self_eps)
             IN  [i \in 1..Len(raw) |-> QuantScore(raw[i], nc_d_mean, nc_d_std)]

\* faulty variant: INSERT, the row of the ticker is kept
InsertDuplicate(table, row) == Append(table, row)

\* INSERT OR REPLACE INTO quantitative_scores_<year>, ticker being the
\* primary key: the row of the ticker is deleted and the new row is added
InsertOrReplace(table, row) ==
    Append(SelectSeq(table, LAMBDA r : r.ticker # row.ticker), row)

\* save_quantitative_scores for each row in turn
RECURSIVE SaveQuantScores(_, _)
SaveQuantScores(table, rows) ==
    IF rows = <<>> THEN table
    ELSE SaveQuantScores(InsertOrReplace(table, Head(rows)), Tail(rows))

\* the TF-IDF rows of one company as a run of the TF-IDF step saves them:
\* keyword, category and tfidf in tenths
TfidfRow(t, kw, cat, tenths) ==
    [ticker |-> t, keyword |-> <<kw>>, keyword_category |-> cat,
     tf |-> Quotient(1, 1), idf |-> tenths, tfidf |-> Quotient(tenths, 1)]

ScoreInputs(t) ==
    { <<TfidfRow(t, "a", "expansion", 8), TfidfRow(t, "b", "contraction", 1)>>,
      <<TfidfRow(t, "a", "expansion", 1), TfidfRow(t, "b", "contraction", 1)>>,
      <<TfidfRow(t, "b", "contraction", 8), TfidfRow(t, "c", "china_positive", 1)>>,
      <<TfidfRow(t, "d", "china_negative", 8), TfidfRow(t, "e", "non_china_regions", 1)>>,
      <<TfidfRow(t, "c", "china_positive", 8), TfidfRow(t, "e", "non_china_regions", 1)>>,
      <<TfidfRow(t, "f", "unknown", 1)>> }

\* save_tfidf_scores(data_year, scores) with the rows of one company of the
\* year
save_tfidf_scores(y, scores) ==
    /\ Len(tfidf_scores[y]) + Len(scores) <= MaxTfidfRows
    /\ tfidf_scores' = [tfidf_scores EXCEPT ![y] = SaveTfidf(@, scores)]
    /\ UNCHANGED <<companies, corpus, keywords, tfidf_calls, tfidf_runs>>
    /\ UNCHANGED <<quantitative_scores, score_calls, score_input, year_keywords,
                   writeVars>>
    /\ UNCHANGED <<chunkVars, extractVars, batchVars>>

\* calculate_scores_for_year(data_year)
calculate_scores_for_year(y) ==
    /\ score_calls[y] < MaxScoreRuns
    /\ quantitative_scores' = [quantitative_scores EXCEPT ![y] =
           SaveQuantScores(@, final_scores(y))]
    /\ score_calls' = [score_calls EXCEPT ![y] = @ + 1]
    /\ score_input' = [score_input EXCEPT ![y] = ScoreInput(y)]
    /\ UNCHANGED <<companies, corpus, keywords, tfidf_scores, tfidf_calls,
                   tfidf_runs, year_keywords, writeVars>>
    /\ UNCHANGED <<chunkVars, extractVars, batchVars>>

----------------------------------------------------------------------------
(* DatabaseManagerV2: a write that meets lock contention                   *)

\* the write methods of the pipeline
Writers ==
    {"save_company", "save_structured_data", "save_text_segments",
     "save_keywords", "save_tfidf_scores", "save_quantitative_scores"}

\* the write methods whose statements stand in
\* "for attempt in range(max_retries): try: ... except sqlite3.OperationalError"
RetryingWriters ==
    {"save_company", "save_text_segments", "save_keywords", "save_tfidf_scores"}

\* max_retries = 5 of the write methods
write_max_retries == 5

\* "locked" in str(e) and attempt < max_retries - 1, in a method that has the
\* loop
MayRetry(w, att) == w \in RetryingWriters /\ att < write_max_retries - 1

\* time.sleep((attempt + 1) * 2)
Backoff(att) == (att + 1) * 2

\* a write method is called
CallWrite(w) ==
    /\ write_pc \in {"idle", "returned", "raised"}
    /\ Len(committed) < MaxWrites
    /\ writer' = w
    /\ write_pc' = "attempting"
    /\ write_attempt' = 0
    /\ write_sleeps' = <<>>
    /\ write_error' = "none"
    /\ UNCHANGED committed
    /\ UNCHANGED <<companies, corpus, keywords, tfidf_scores, tfidf_calls,
                   tfidf_runs, quantitative_scores, score_calls, score_input,
                   year_keywords>>
    /\ UNCHANGED <<chunkVars, extractVars, batchVars>>

\* the statements are executed and committed, the method returns
WriteCommits ==
    /\ write_pc = "attempting"
    /\ committed' = Append(committed, writer)
    /\ write_pc' = "returned"
    /\ UNCHANGED <<writer, write_attempt, write_sleeps, write_error>>
    /\ UNCHANGED <<companies, corpus, keywords, tfidf_scores, tfidf_calls,
                   tfidf_runs, quantitative_scores, score_calls, score_input,
                   year_keywords>>
    /\ UNCHANGED <<chunkVars, extractVars, batchVars>>

\* the first statement fails with sqlite3.OperationalError "database is
\* locked": the write lock was not obtained and nothing is written
WriteLocked ==
    /\ write_pc = "attempting"
    /\ IF MayRetry(writer, write_attempt)
       THEN /\ write_sleeps' = Append(write_sleeps, Backoff(write_attempt))
            /\ write_attempt' = write_attempt + 1
            /\ UNCHANGED <<write_pc, write_error>>
       ELSE /\ write_pc' = "raised"
            /\ write_error' = "locked"
            /\ UNCHANGED <<write_attempt, write_sleeps>>
    /\ UNCHANGED <<writer, committed>>
    /\ UNCHANGED <<companies, corpus, keywords, tfidf_scores, tfidf_calls,
                   tfidf_runs, quantitative_scores, score_calls, score_input,
                   year_keywords>>
    /\ UNCHANGED <<chunkVars, extractVars, batchVars>>

\* a statement fails with another error: the method raises it at once
WriteFails ==
    /\ write_pc = "attempting"
    /\ write_pc' = "raised"
    /\ write_error' = "other"
    /\ UNCHANGED <<writer, write_attempt, write_sleeps, committed>>
    /\ UNCHANGED <<companies, corpus, keywords, tfidf_scores, tfidf_calls,
                   tfidf_runs, quantitative_scores, score_calls, score_input,
                   year_keywords>>
    /\ UNCHANGED <<chunkVars, extractVars, batchVars>>

----------------------------------------------------------------------------
(* KeywordExtractor.extract_keywords_for_year and the saving of its result *)

\* the keywords the service returns for a batch
RawKeywords ==
    { [keyword |-> <<"B">>, category |-> "expansion"],
      [keyword |-> <<"b">>, category |-> "contraction"],
      [keyword |-> <<"c", " ">>, category |-> "china_positive"],
      [keyword |-> <<"c">>, category |-> "china_negative"],
      [keyword |-> <<" ">>, category |-> "expansion"] }

\* what asyncio.gather holds for a batch: an exception or the list
\* llm_extract_keywords returned
BatchException == [kind |-> "exception", items |-> <<>>]

BatchList(items) == [kind |-> "list", items |-> items]

BatchOutcomes ==
    {BatchException, BatchList(<<>>)} \cup {BatchList(l) : l \in ShortLists(RawKeywords)}

\* len(batches) for n texts
NumBatches(n) == (n + BatchSize - 1) \div BatchSize

\* kw_text = kw.get('keyword', '').strip().lower(); the keyword is added
\* when kw_text is not empty and not yet a key
MergeKeyword(all_keywords, kw) ==
    LET kw_text == Lower(Strip(kw.keyword))
    IN  IF kw_text # <<>>
           /\ ~\E i \in 1..Len(all_keywords) : all_keywords[i].keyword = kw_text
        THEN Append(all_keywords, [keyword |-> kw_text, category |-> kw.category])
        ELSE all_keywords

RECURSIVE MergeBatch(_, _)
MergeBatch(all_keywords, items) ==
    IF items = <<>> THEN all_keywords
    ELSE MergeBatch(MergeKeyword(all_keywords, Head(items)), Tail(items))

\* the loop "for i, result in enumerate(results, 1)": an exception and an
\* empty list are skipped
RECURSIVE MergeResults(_, _)
MergeResults(all_keywords, rs) ==
    IF rs = <<>> THEN all_keywords
    ELSE MergeResults(
             IF Head(rs).kind = "exception" THEN all_keywords
             ELSE MergeBatch(all_keywords, Head(rs).items),
             Tail(rs))

\* extract_keywords_for_year(year) followed by "if year_keywords:
\* save_keywords(list(year_keywords.values()))", rs being the results of
\* the batches
SaveYearKeywords(y, rs) ==
    LET merged == IF all_texts(y) = <<>> THEN <<>> ELSE MergeResults(<<>>, rs)
    IN  /\ Len(rs) = NumBatches(Len(all_texts(y)))
        /\ year_keywords' = merged
        /\ Len(InsertOrIgnore(keywords, merged)) <= MaxKeywords
        /\ keywords' = InsertOrIgnore(keywords, merged)
        /\ tfidf_runs' = IF keywords' = keywords
                         THEN tfidf_runs ELSE [yy \in Years |-> 0]
        /\ UNCHANGED <<companies, corpus, tfidf_scores, tfidf_calls,
                       quantitative_scores, score_calls, score_input, writeVars>>
        /\ UNCHANGED <<chunkVars, extractVars>>

\* the same as one step, for specifications that do not follow the batches
ExtractKeywordsForYear(y, rs) ==
    SaveYearKeywords(y, rs) /\ UNCHANGED batchVars

----------------------------------------------------------------------------
(* SpecChunk: the chunker applied to every bounded input                   *)

InitChunk ==
    /\ text \in TextsUpTo(MaxTextLen)
    /\ max_tokens \in 1..MaxTokens
    /\ chunks = <<>>
    /\ split_pc = "input"
    /\ ExtractIdle
    /\ BatchIdle
    /\ DatabaseEmpty

CallSplit ==
    /\ split_pc = "input"
    /\ chunks' = split_text_into_chunks(text, max_tokens)
    /\ split_pc' = "returned"
    /\ UNCHANGED <<text, max_tokens>>
    /\ UNCHANGED <<extractVars, batchVars, dbVars>>

NextChunk == CallSplit

SpecChunk == InitChunk /\ [][NextChunk]_vars

----------------------------------------------------------------------------
(* Claims about the chunker                                                *)

NonWhitespace(s) == SelectSeq(s, LAMBDA c : c \notin Whitespace)

\* C4: every returned chunk has length <= max_chars, also the pieces of a
\* paragraph that is longer than max_chars.
C4_ChunkWithinBudget ==
    split_pc = "returned" =>
        \A k \in 1..Len(chunks) : Len(chunks[k]) <= MaxChars(max_tokens)

\* C4 witness: a text with an oversized paragraph and a packed paragraph of
\* exactly max_chars has been split.
C4_Witness ==
    /\ split_pc = "returned"
    /\ \E p \in 1..Len(SplitParagraphs(text)) :
           Len(SplitParagraphs(text)[p]) > MaxChars(max_tokens)
    /\ \E k \in 1..Len(chunks) : Len(chunks[k]) = MaxChars(max_tokens)
    /\ Len(chunks) >= 3

C6_BoundaryChunkCount ==
    split_pc = "returned" =>
        /\ Len(text) <= MaxChars(max_tokens) => chunks = <<text>>
        /\ (Len(text) > MaxChars(max_tokens) /\ Len(SplitParagraphs(text)) = 1)
               => Len(chunks) >= 2

\* C6 witness: a text of exactly max_chars characters holding a paragraph
\* break has been split.
C6_Witness ==
    /\ split_pc = "returned"
    /\ Len(text) = MaxChars(max_tokens)
    /\ Len(SplitParagraphs(text)) = 2
    /\ chunks = <<text>>

\* the paragraphs of text that hold no character but whitespace
BlankParagraphs(t) ==
    {p \in 1..Len(SplitParagraphs(t)) :
        NonWhitespace(SplitParagraphs(t)[p]) = <<>>}

\* the paragraphs of text longer than max_chars
OversizedParagraphs(t, max_chars) ==
    {p \in 1..Len(SplitParagraphs(t)) : Len(SplitParagraphs(t)[p]) > max_chars}

\* C28: for a text longer than max_chars every returned chunk holds a
\* character that is not whitespace, whatever blank paragraphs stand at the
\* start, at the end or next to an oversized paragraph.
C28_NoBlankChunk ==
    (split_pc = "returned" /\ Len(text) > MaxChars(max_tokens)) =>
        \A k \in 1..Len(chunks) : NonWhitespace(chunks[k]) # <<>>

\* C28, the part that holds: a text longer than max_chars without a blank
\* paragraph and without an oversized paragraph gives no blank chunk
C28_PackedPart ==
    (/\ split_pc = "returned"
     /\ Len(text) > MaxChars(max_tokens)
     /\ BlankParagraphs(text) = {}
     /\ OversizedParagraphs(text, MaxChars(max_tokens)) = {}) =>
        \A k \in 1..Len(chunks) : NonWhitespace(chunks[k]) # <<>>

----------------------------------------------------------------------------
(* SpecExtract: one call of llm_extract against every behaviour of the     *)
(* service                                                                 *)

InitExtract ==
    /\ text \in ExtractTexts
    /\ max_tokens = MaxTokens
    /\ chunks = <<>>
    /\ split_pc = "input"
    /\ ex_pc = "called"
    /\ attempt = 0
    /\ chunk_i = 0
    /\ all_structured_data = NoKeys
    /\ all_text_segments = <<>>
    /\ chunk_results = <<>>
    /\ result = EmptyResult
    /\ ex_failed = FALSE
    /\ service_calls = 0
    /\ last_response = NoResponse
    /\ last_sleep = 0
    /\ chunked_calls = 0
    /\ logged = <<>>
    /\ BatchIdle
    /\ DatabaseEmpty

NextExtract ==
    \/ llm_extract
    \/ ex_pc = "direct" /\ \E r \in Responses : DirectAttempt(r)
    \/ ex_pc = "chunked" /\ \E r \in Responses : ChunkAttempt(r)

SpecExtract == InitExtract /\ [][NextExtract]_vars

\* One response for every branch of the two retry loops and of the merge:
\* each failure, and an object for every shape of structured_data and of
\* text_segments. The values inside a mapping and the length of a non-empty
\* list decide no branch.
TerminationResponses ==
    {r \in Responses : /\ r.structured_data.map = NoKeys
                       /\ Len(r.text_segments.items) <= 1}

NextTermination ==
    \/ llm_extract
    \/ ex_pc = "direct" /\ \E r \in TerminationResponses : DirectAttempt(r)
    \/ ex_pc = "chunked" /\ \E r \in TerminationResponses : ChunkAttempt(r)

\* the event loop runs the coroutine on: every await of the call returns
FairSpecExtract ==
    InitExtract /\ [][NextTermination]_vars /\ WF_vars(NextTermination)

----------------------------------------------------------------------------
(* Claims about extraction                                                 *)

\* the call went through llm_extract_chunked
ChunkedMode == chunk_results # <<>>

\* every attempt on every chunk, or the last direct attempt, ended in an error
Unrecoverable ==
    \/ ex_failed
    \/ ChunkedMode /\ \A i \in 1..Len(chunk_results) : chunk_results[i].failed

\* C1: llm_extract never raises, whatever the service does on each attempt,
\* in direct and in chunked mode; it returns a result object (whose
\* structured_data and text_segments keys are optional), and exactly the
\* empty result on unrecoverable failure.
C1_ExtractNeverRaises ==
    /\ ex_pc # "raised"
    /\ ex_pc = "returned" =>
           /\ result.kind = "object"
           /\ Unrecoverable => result = EmptyResult

\* the part of C1 the code keeps: what is returned is a result object, and
\* the empty result on unrecoverable failure
C1_ReturnedPart ==
    ex_pc = "returned" =>
        /\ result.kind = "object"
        /\ Unrecoverable => result = EmptyResult

\* what each chunk contributes to the merged segments: its own list, and
\* nothing when its extraction failed
SegmentsOf(entry) ==
    IF entry.failed THEN <<>> ELSE entry.value.text_segments.items

RECURSIVE AllSegments(_)
AllSegments(entries) ==
    IF entries = <<>> THEN <<>>
    ELSE SegmentsOf(Head(entries)) \o AllSegments(Tail(entries))

\* C8: in chunked mode the merged text_segments is the concatenation of the
\* chunks' lists in chunk order; a failed chunk contributes nothing.
C8_SegmentsConcatenated ==
    (ex_pc = "returned" /\ ChunkedMode) =>
        /\ Len(chunk_results) = Len(chunks)
        /\ result.text_segments = TSList(AllSegments(chunk_results))

\* C8 witness: three chunks merged, the second one failed, the first and
\* third gave different segment lists.
C8_Witness ==
    /\ ex_pc = "returned"
    /\ Len(chunk_results) = 3
    /\ chunk_results[1].value.text_segments.items = <<12, 13>>
    /\ chunk_results[2].failed
    /\ chunk_results[3].value.text_segments.items = <<11>>
    /\ result.text_segments.items = <<12, 13, 11>>

\* the items chunk results contribute under key, in chunk order
RECURSIVE AllItems(_, _)
AllItems(entries, key) ==
    IF entries = <<>> THEN <<>>
    ELSE LET sd == Head(entries).value.structured_data
         IN  (IF sd.tag = "map" /\ key \in DOMAIN sd.map
              THEN sd.map[key].items ELSE <<>>)
                 \o AllItems(Tail(entries), key)

KeysOf(entries) ==
    UNION {DOMAIN entries[i].value.structured_data.map : i \in 1..Len(entries)}

\* C9: in chunked mode every key of the merged structured_data holds a list:
\* the chunks' list values concatenated in chunk order, a scalar or object
\* value standing as one element at its chunk's position.
C9_StructuredMergedAsLists ==
    (ex_pc = "returned" /\ ChunkedMode) =>
        /\ result.structured_data.tag = "map"
        /\ DOMAIN result.structured_data.map = KeysOf(chunk_results)
        /\ \A key \in DOMAIN result.structured_data.map :
               result.structured_data.map[key] =
                   ListValue(AllItems(chunk_results, key))

\* C9 witness: lists of length 2 and 3 and then a scalar under the same key
\* were merged into a list of length 6.
C9_Witness ==
    /\ ex_pc = "returned"
    /\ Len(chunk_results) = 3
    /\ chunk_results[1].value.structured_data.map =
           [k \in {"foreign_investments"} |-> ListValue(<<1, 2>>)]
    /\ chunk_results[2].value.structured_data.map =
           [k \in {"foreign_investments"} |-> ListValue(<<3, 4, 5>>)]
    /\ chunk_results[3].value.structured_data.map =
           [k \in {"foreign_investments"} |-> ScalarValue(6)]
    /\ result.structured_data.map["foreign_investments"].items
           = <<1, 2, 3, 4, 5, 6>>

----------------------------------------------------------------------------
(* SpecBatch: one call of build_corpus_batch                               *)

InitBatch ==
    /\ KeywordsIdle
    /\ batch_pc = "gathering"
    /\ semaphore = MaxConcurrent
    /\ task_pc = [f \in Files |-> "created"]
    /\ outcome = [f \in Files |-> NoOutcome]
    /\ finished = <<>>
    /\ results = <<>>
    /\ success_count = 0
    /\ failed_count = 0
    /\ error_count = 0
    /\ text = <<>>
    /\ max_tokens = MaxTokens
    /\ chunks = <<>>
    /\ split_pc = "input"
    /\ ExtractIdle
    /\ DatabaseEmpty

NextBatch ==
    \/ \E f \in Files : StartTask(f)
    \/ \E f \in Files : AdmitTask(f)
    \/ \E f \in Files : BeginExtraction(f)
    \/ \E f \in Files : ReportRaises(f)
    \/ \E f \in Files, n \in 0..MaxSegmentsCount : ReportReturns(f, n)
    \/ GatherReturns

SpecBatch == InitBatch /\ [][NextBatch]_vars

----------------------------------------------------------------------------
(* Claims about the batch                                                  *)

\* the files inside build_corpus_for_report
InReport == {f \in Files : task_pc[f] \in {"running", "extracting"}}

\* the files whose extraction call is in flight
InFlight == {f \in Files : task_pc[f] = "extracting"}

\* C2: at every moment at most max_concurrent documents are inside
\* build_corpus_for_report, hence at most max_concurrent extraction calls are
\* in flight; a further document is admitted only when a slot is free.
C2_BoundedConcurrency ==
    /\ Cardinality(InReport) <= MaxConcurrent
    /\ Cardinality(InFlight) <= MaxConcurrent
    /\ semaphore >= 0

\* C2 witness: every slot is taken by an extraction in flight and a further
\* document waits.
C2_Witness ==
    /\ Cardinality(InFlight) = MaxConcurrent
    /\ \E f \in Files : task_pc[f] = "waiting"

\* C3: a failed document releases its slot and leaves the others alone; the
\* batch returns one outcome per file in input order, each exactly one of
\* success, empty or exception, and the three counts sum to the number of
\* files.
C3_BatchIndependence ==
    /\ semaphore + Cardinality(InReport) = MaxConcurrent
    /\ batch_pc = "returned" =>
           /\ Len(results) = NumFiles
           /\ \A i \in 1..NumFiles :
                  /\ results[i].file = html_files[i]
                  /\ results[i] = outcome[html_files[i]]
                  /\ Cardinality({c \in {"success", "empty", "error"} :
                         \/ c = "success" /\ IsSuccess(results[i])
                         \/ c = "empty" /\ IsEmpty(results[i])
                         \/ c = "error" /\ IsError(results[i])}) = 1
           /\ success_count + failed_count + error_count = NumFiles

\* C3 witness: the first document to finish raised while another waited;
\* the batch returned with a success, an empty result and that exception.
C3_Witness ==
    /\ batch_pc = "returned"
    /\ outcome[finished[1]].kind = "exception"
    /\ finished[1] # finished[Len(finished)]
    /\ finished # html_files
    /\ success_count >= 1
    /\ failed_count >= 1
    /\ error_count = 1

----------------------------------------------------------------------------
(* SpecTfidf: the tables and the TF-IDF step                               *)

InitTfidf ==
    /\ DatabaseEmpty
    /\ text = <<>>
    /\ max_tokens = MaxTokens
    /\ chunks = <<>>
    /\ split_pc = "input"
    /\ ExtractIdle
    /\ BatchIdle

NextTfidf ==
    \/ \E t \in Tickers, y \in SingleYear : save_company(t, y)
    \/ \E t \in Tickers, y \in SingleYear, segments \in ShortLists(SegTexts) :
           save_text_segments(t, y, segments)
    \/ \E kws \in ShortLists(KeywordChoices) : save_keywords(kws)
    \/ \E y \in SingleYear : calculate_tfidf_for_year(y)

SpecTfidf == InitTfidf /\ [][NextTfidf]_vars

----------------------------------------------------------------------------
(* Claims about the TF-IDF step                                            *)

\* every call for year y so far ran on the companies, corpus and keywords
\* the tables hold now
OnlyRunOnCurrentInputs(y) == tfidf_runs[y] >= 1 /\ tfidf_calls[y] = tfidf_runs[y]

\* C7: after one or more runs on an unchanged corpus and keyword set, the
\* stored rows of the year are those of a single run: earlier rows are
\* replaced, and each (ticker, keyword) has at most one row.
C7_RecomputedWholesale ==
    \A y \in Years :
        OnlyRunOnCurrentInputs(y) =>
            /\ tfidf_scores[y] = all_scores(y, keywords)
            /\ \A i, j \in 1..Len(tfidf_scores[y]) :
                   (/\ tfidf_scores[y][i].ticker = tfidf_scores[y][j].ticker
                    /\ tfidf_scores[y][i].keyword = tfidf_scores[y][j].keyword)
                       => i = j

\* the rows the latest run stored, when the inputs have not changed since
LastRunRows(y) ==
    SubSeq(tfidf_scores[y],
           Len(tfidf_scores[y]) - Len(all_scores(y, keywords)) + 1,
           Len(tfidf_scores[y]))

\* C10: every stored row has tfidf > 0; a keyword contained in none of the
\* year's segments has idf = 0 and gets no row from the run.
C10_OnlyPositiveRows ==
    \A y \in Years :
        /\ \A i \in 1..Len(tfidf_scores[y]) : tfidf_scores[y][i].tfidf.num > 0
        /\ tfidf_runs[y] >= 1 =>
               \A k \in 1..Len(keywords) :
                   segment_count(y, Lower(keywords[k].keyword)) = 0 =>
                       /\ InverseDocumentFrequency(y, Lower(keywords[k].keyword)) = 0
                       /\ \A i \in 1..Len(LastRunRows(y)) :
                              LastRunRows(y)[i].keyword # Lower(keywords[k].keyword)

\* C10 witness: a run stored a row for one keyword while another keyword of
\* the table occurs in no segment of the year.
C10_Witness ==
    \E y \in Years :
        /\ tfidf_runs[y] >= 1
        /\ Len(LastRunRows(y)) >= 1
        /\ \E k \in 1..Len(keywords) :
               segment_count(y, Lower(keywords[k].keyword)) = 0

----------------------------------------------------------------------------
(* SpecScore: the TF-IDF rows of the companies and the score step          *)

InitScore ==
    /\ DatabaseEmpty
    /\ text = <<>>
    /\ max_tokens = MaxTokens
    /\ chunks = <<>>
    /\ split_pc = "input"
    /\ ExtractIdle
    /\ BatchIdle

NextScore ==
    \/ \E t \in Tickers, y \in SingleYear : save_company(t, y)
    \/ \E y \in SingleYear : \E t \in companies[y] : \E scores \in ScoreInputs(t) :
           save_tfidf_scores(y, scores)
    \/ \E y \in SingleYear : calculate_scores_for_year(y)

SpecScore == InitScore /\ [][NextScore]_vars

----------------------------------------------------------------------------
(* Claims about the score step                                             *)

\* the companies of the year that have at least one TF-IDF row
WithTfidfRows(y) ==
    {t \in companies[y] : \E i \in 1..Len(tfidf_scores[y]) : tfidf_scores[y][i].ticker = t}

ScoredTickers(table) == {table[i].ticker : i \in 1..Len(table)}

\* C11: a call of calculate_scores_for_year(year) writes a score row for
\* exactly the companies of the year that have at least one TF-IDF row; it
\* writes none for a company without rows and leaves the other rows of the
\* table as they were.
C11_ScoresForCompaniesWithRows ==
    [][\A y \in Years :
          score_calls'[y] = score_calls[y] + 1 =>
              LET old == quantitative_scores[y]
                  new == quantitative_scores'[y]
                  kept == SelectSeq(old, LAMBDA r : r.ticker \notin WithTfidfRows(y))
              IN  /\ Len(new) = Len(kept) + Cardinality(WithTfidfRows(y))
                  /\ SubSeq(new, 1, Len(kept)) = kept
                  /\ {new[i].ticker : i \in (Len(kept) + 1)..Len(new)}
                         = WithTfidfRows(y)]_vars

\* a run has scored one of two companies: the other one has no TF-IDF row
C11_Witness ==
    \E y \in Years :
        /\ score_calls[y] > 0
        /\ score_input[y] = ScoreInput(y)
        /\ companies[y] = Tickers
        /\ WithTfidfRows(y) = {"BBB"}
        /\ ScoredTickers(quantitative_scores[y]) = {"BBB"}

InUnitRange(x) == ~RLess(x, RInt(0)) /\ ~RLess(RInt(100), x)

\* C12: in every stored score row the investment attitude score, the China
\* investment score, the non-China investment score and both normalised
\* densities lie in [0, 100].
C12_ScoresBounded ==
    \A y \in Years : \A i \in 1..Len(quantitative_scores[y]) :
        LET row == quantitative_scores[y][i]
        IN  /\ InUnitRange(row.investment_attitude_score)
            /\ InUnitRange(row.china_investment_score)
            /\ InUnitRange(row.non_china_investment_score)
            /\ InUnitRange(row.china_investment_density_normalized)
            /\ InUnitRange(row.non_china_investment_density_normalized)

\* the density correction has pushed one score to 100 and another to 0
C12_Witness ==
    \E y \in Years : \E i, j \in 1..Len(quantitative_scores[y]) :
        /\ REq(quantitative_scores[y][i].investment_attitude_score, RInt(100))
        /\ REq(quantitative_scores[y][j].china_investment_score, RInt(0))

OneRowPerTicker(table) ==
    \A i, j \in 1..Len(table) : table[i].ticker = table[j].ticker => i = j

RowSet(table) == {table[i] : i \in 1..Len(table)}

\* C13: the score table of a year never holds two rows of one ticker, and
\* a call of calculate_scores_for_year that reads the TF-IDF rows the
\* previous call read leaves every company with the score values it had.
C13_RescoringIdempotent ==
    /\ [](\A y \in Years : OneRowPerTicker(quantitative_scores[y]))
    /\ [][\A y \in Years :
             (/\ score_calls'[y] = score_calls[y] + 1
              /\ score_calls[y] > 0
              /\ ScoreInput(y) = score_input[y])
             => RowSet(quantitative_scores'[y]) = RowSet(quantitative_scores[y])]_vars

\* two companies have been scored twice on the same rows
C13_Witness ==
    \E y \in Years :
        /\ score_calls[y] = 2
        /\ Len(quantitative_scores[y]) = 2
        /\ Len(tfidf_scores[y]) = MaxTfidfRows
        /\ score_input[y] = ScoreInput(y)

\* the order of a and b: -1, 0 or 1
Compare(a, b) == RSign(RSub(a, b))

ScenarioA(row) ==
    /\ REq(row.expansion_score, Real(<<8>>, <<10>>))
    /\ REq(row.contraction_score, Real(<<1>>, <<10>>))
    /\ REq(row.china_positive_score, RInt(0))
    /\ REq(row.china_negative_score, RInt(0))
    /\ REq(row.non_china_raw_score, RInt(0))

ScenarioB(row) ==
    /\ REq(row.expansion_score, Real(<<1>>, <<10>>))
    /\ REq(row.contraction_score, Real(<<1>>, <<10>>))
    /\ REq(row.china_positive_score, RInt(0))
    /\ REq(row.china_negative_score, RInt(0))
    /\ REq(row.non_china_raw_score, RInt(0))

\* C14: the investment attitude score lies on the side of 50 on which the
\* expansion sum lies of the contraction sum (above, equal, below), the
\* China investment score likewise for china_positive and china_negative;
\* and a company with expansion 0.8 and contraction 0.1 scores above 50 and
\* above a company of the same year with expansion 0.1 and contraction 0.1.
C14_ScoreFollowsSentiment ==
    \A y \in Years : \A i \in 1..Len(quantitative_scores[y]) :
        LET row == quantitative_scores[y][i]
        IN  /\ Compare(row.investment_attitude_score, RInt(50))
                   = Compare(row.expansion_score, row.contraction_score)
            /\ Compare(row.china_investment_score, RInt(50))
                   = Compare(row.china_positive_score, row.china_negative_score)
            /\ \A j \in 1..Len(quantitative_scores[y]) :
                   ScenarioA(row) /\ ScenarioB(quantitative_scores[y][j])
                   => /\ RLess(RInt(50), row.investment_attitude_score)
                      /\ RLess(quantitative_scores[y][j].investment_attitude_score,
                               row.investment_attitude_score)

\* the two companies of the scenario have been scored in one run
C14_Witness ==
    \E y \in Years : \E i, j \in 1..Len(quantitative_scores[y]) :
        /\ score_input[y] = ScoreInput(y)
        /\ ScenarioA(quantitative_scores[y][i])
        /\ ScenarioB(quantitative_scores[y][j])

ZeroMass(row) ==
    /\ REq(row.expansion_score, RInt(0))
    /\ REq(row.contraction_score, RInt(0))
    /\ REq(row.china_positive_score, RInt(0))
    /\ REq(row.china_negative_score, RInt(0))
    /\ REq(row.non_china_raw_score, RInt(0))

\* C15: a company whose TF-IDF mass over the five scored categories is 0
\* has investment attitude score 50, China investment score 50 and both
\* normalised densities 50.
C15_NeutralDefault ==
    \A y \in Years : \A i \in 1..Len(quantitative_scores[y]) :
        LET row == quantitative_scores[y][i]
        IN  ZeroMass(row) =>
                /\ REq(row.investment_attitude_score, RInt(50))
                /\ REq(row.china_investment_score, RInt(50))
                /\ REq(row.china_investment_density_normalized, RInt(50))
                /\ REq(row.non_china_investment_density_normalized, RInt(50))

\* a company with rows of another category only has been scored
C15_Witness ==
    \E y \in Years : \E i \in 1..Len(quantitative_scores[y]) :
        /\ ZeroMass(quantitative_scores[y][i])
        /\ quantitative_scores[y][i].total_keywords_count > 0

----------------------------------------------------------------------------
(* SpecWrite: calls of the write methods under lock contention             *)

InitWrite ==
    /\ DatabaseEmpty
    /\ text = <<>>
    /\ max_tokens = MaxTokens
    /\ chunks = <<>>
    /\ split_pc = "input"
    /\ ExtractIdle
    /\ BatchIdle

NextWrite ==
    \/ \E w \in Writers : CallWrite(w)
    \/ WriteCommits
    \/ WriteLocked
    \/ WriteFails

SpecWrite == InitWrite /\ [][NextWrite]_vars

----------------------------------------------------------------------------
(* Claims about the write methods                                          *)

\* the waits before attempt number att (from 0): 2, 4, ...
RECURSIVE WaitsBefore(_)
WaitsBefore(att) == IF att = 0 THEN <<>> ELSE Append(WaitsBefore(att - 1), 2 * att)

\* C16: every write method that meets lock errors waits 2, 4, 6, 8 seconds
\* between its attempts and raises the lock error only when its fifth
\* attempt has failed.
C16_WritesRetryOnLock ==
    /\ write_pc # "idle" => write_sleeps = WaitsBefore(write_attempt)
    /\ write_pc = "raised" /\ write_error = "locked"
           => write_attempt = 4 /\ write_sleeps = <<2, 4, 6, 8>>

\* the part of C16 the code keeps: the four methods with the retry loop
C16_RetryingPart ==
    /\ write_pc # "idle" => write_sleeps = WaitsBefore(write_attempt)
    /\ write_attempt <= 4
    /\ writer \in RetryingWriters /\ write_pc = "raised" /\ write_error = "locked"
           => write_attempt = 4 /\ write_sleeps = <<2, 4, 6, 8>>

\* the part of C16 about the stored state: the statements of a call are
\* committed once when it returns, after whatever number of lock errors
C16_CommittedOnce ==
    [][/\ write_pc' = "returned" /\ write_pc = "attempting"
           => committed' = Append(committed, writer)
       /\ ~(write_pc' = "returned" /\ write_pc = "attempting")
           => committed' = committed]_vars

----------------------------------------------------------------------------
(* SpecKeywords: the corpus and the keyword extraction                     *)

InitKeywords ==
    /\ DatabaseEmpty
    /\ text = <<>>
    /\ max_tokens = MaxTokens
    /\ chunks = <<>>
    /\ split_pc = "input"
    /\ ExtractIdle
    /\ BatchIdle

\* the batches are cut by the number of texts alone and the service's answer
\* is free, so the corpus grows by one text at a time
NextKeywords ==
    \/ \E t \in Tickers, y \in SingleYear : save_text_segments(t, y, << <<"b">> >>)
    \/ \E y \in SingleYear :
           \E rs \in [1..NumBatches(Len(all_texts(y))) -> BatchOutcomes] :
               ExtractKeywordsForYear(y, rs)

SpecKeywords == InitKeywords /\ [][NextKeywords]_vars

----------------------------------------------------------------------------
(* Claims about the keyword table                                          *)

\* C17: the keyword table never holds two rows of one keyword text, and a
\* stored row stays as it is: no step changes the keyword or the category
\* of a row, whatever is saved later.
C17_KeywordsDeduplicated ==
    /\ [](\A i, j \in 1..Len(keywords) :
             keywords[i].keyword = keywords[j].keyword => i = j)
    /\ [][/\ Len(keywords') >= Len(keywords)
          /\ \A i \in 1..Len(keywords) : keywords'[i] = keywords[i]]_vars

\* the keywords just saved hold a text that is stored under another
\* category
C17_Witness ==
    \E i \in 1..Len(year_keywords), j \in 1..Len(keywords) :
        /\ year_keywords[i].keyword = keywords[j].keyword
        /\ year_keywords[i].category # keywords[j].category

----------------------------------------------------------------------------
(* Claims about the retry loops of extraction                              *)

\* the step is a service call that gave a response of kind knd
ServiceGave(knd) ==
    service_calls' = service_calls + 1 /\ last_response'.kind = knd

\* C18: an attempt that fails with a token-limit error is not retried in
\* place, in the whole-document procedure and in the per-chunk procedure
\* alike: llm_extract_chunked is called at once, without a wait.
C18_TokenErrorReroutes ==
    [][ServiceGave("token_error")
           => chunked_calls' = chunked_calls + 1 /\ last_sleep' = 0]_vars

\* the part of C18 the code keeps: the whole-document procedure
C18_DirectPart ==
    [][ServiceGave("token_error") /\ ex_pc = "direct"
           => /\ chunked_calls' = chunked_calls + 1
              /\ last_sleep' = 0
              /\ attempt' = 0
              /\ chunks' = split_text_into_chunks(text, max_tokens)]_vars

\* C19: every call of llm_extract ends; each retry loop makes at most
\* max_retries attempts, llm_extract_chunked is called at most once, and the
\* service is called at most max_retries + len(chunks) * max_retries times.
C19_ExtractTerminates ==
    /\ [](/\ attempt < max_retries
          /\ chunked_calls <= 1
          /\ service_calls <= max_retries + Len(chunks) * max_retries)
    /\ <>(ex_pc \in {"returned", "raised"})

\* a text below the threshold was rerouted on the last attempt and its one
\* chunk used up its attempts: the bound is met
C19_Witness ==
    /\ ex_pc = "returned"
    /\ estimate_tokens(text) <= max_tokens
    /\ chunked_calls = 1
    /\ Len(chunks) = 1
    /\ service_calls = max_retries + Len(chunks) * max_retries

\* C20: a response with an empty text_segments list is retried after a
\* wait of 2 seconds while attempts remain; on the last attempt, and for a
\* non-empty list on any attempt, the procedure returns the response as
\* received, without a wait or another call.
C20_EmptySegmentsRetried ==
    [][(ServiceGave("object") /\ last_response'.text_segments.tag = "list")
           => IF last_response'.text_segments.items = <<>>
                 /\ attempt < max_retries - 1
              THEN /\ attempt' = attempt + 1
                   /\ last_sleep' = 2
                   /\ ex_pc' = ex_pc
                   /\ chunk_results' = chunk_results
                   /\ result' = result
              ELSE /\ last_sleep' = 0
                   /\ IF ex_pc = "direct"
                      THEN /\ ex_pc' = "returned"
                           /\ result' = last_response'
                           /\ ~ex_failed'
                      ELSE chunk_results' =
                               Append(chunk_results,
                                      [value |-> last_response', failed |-> FALSE])]_vars

\* the third attempt of the whole-document procedure gave structured data
\* and an empty list, which was returned
C20_Witness ==
    /\ ex_pc = "returned"
    /\ chunked_calls = 0
    /\ service_calls = max_retries
    /\ result = last_response
    /\ result.text_segments = TSList(<<>>)
    /\ result.structured_data.tag = "map"
    /\ DOMAIN result.structured_data.map # {}

\* what a failed attempt leads to: another attempt after a wait of
\* seconds while attempts remain, with nothing returned or merged; on the
\* last attempt no wait and exactly the empty result, returned by
\* llm_extract or handed to llm_extract_chunked as the chunk's result
FailedAttemptHandled(seconds) ==
    IF attempt < max_retries - 1
    THEN /\ attempt' = attempt + 1
         /\ last_sleep' = seconds
         /\ ex_pc' = ex_pc
         /\ result' = result
         /\ chunk_results' = chunk_results
         /\ chunked_calls' = chunked_calls
    ELSE /\ last_sleep' = 0
         /\ chunked_calls' = chunked_calls
         /\ IF ex_pc = "direct"
            THEN /\ ex_pc' = "returned"
                 /\ result' = EmptyResult
                 /\ ex_failed'
            ELSE chunk_results' =
                     Append(chunk_results,
                            [value |-> EmptyResult, failed |-> TRUE])

\* C21: a response that does not parse as JSON is retried while attempts
\* remain and the last such failure gives exactly the empty result; a
\* transport error is handled the same way, with a wait of 2^attempt
\* seconds (attempt counted from 0) before each retry and none after the
\* last attempt.
C21_ParseAndTransportRetried ==
    [][/\ ServiceGave("parse_error") => FailedAttemptHandled(last_sleep')
       /\ ServiceGave("transport_error")
              => FailedAttemptHandled(IF attempt = 0 THEN 1
                                      ELSE IF attempt = 1 THEN 2 ELSE 4)]_vars

\* the whole-document procedure met a transport error on each of its
\* attempts and returned the empty result
C21_Witness ==
    /\ ex_pc = "returned"
    /\ chunked_calls = 0
    /\ service_calls = max_retries
    /\ last_response.kind = "transport_error"
    /\ last_sleep = 0
    /\ ex_failed
    /\ result = EmptyResult

\* the last step logged a line of one of the templates evs, at warning or
\* error level, that prints the exception named detail ("" for none)
Logged(evs, detail) ==
    \E i \in 1..Len(logged') :
        /\ logged'[i].event \in evs
        /\ logged'[i].level \in {"warning", "error"}
        /\ logged'[i].detail = detail

\* the response of the step is a JSON object whose text_segments is empty
\* or missing
GaveEmpty ==
    ServiceGave("object") /\ Falsy(last_response'.text_segments)

\* the failure paths the code logs: parse error, transport error and token
\* error in both procedures, an empty result on a non-final attempt in
\* both, an empty result on the final attempt of the whole-document
\* procedure
C22_LoggedPart ==
    [][/\ ServiceGave("parse_error")
              => Logged({"json_error", "chunk_json_error"}, "parse_error")
       /\ ServiceGave("transport_error")
              => Logged({"llm_error", "chunk_error"}, "transport_error")
       /\ ServiceGave("token_error")
              => Logged({"llm_error", "chunk_error"}, "token_error")
       /\ GaveEmpty /\ attempt < max_retries - 1
              => Logged({"empty_result", "chunk_empty_result"}, "")
       /\ GaveEmpty /\ ~(attempt < max_retries - 1) /\ ex_pc = "direct"
              => Logged({"empty_after_all_retries"}, "")]_vars

\* C22: every failure path of extraction logs a line that identifies its
\* reason before the procedure returns or retries: parse error, transport
\* error, token-limit error, empty result on a non-final attempt and empty
\* result on the final attempt, in the whole-document procedure and in the
\* per-chunk procedure.
C22_FailuresLogged ==
    [][/\ ServiceGave("parse_error")
              => Logged({"json_error", "chunk_json_error"}, "parse_error")
       /\ ServiceGave("transport_error")
              => Logged({"llm_error", "chunk_error"}, "transport_error")
       /\ ServiceGave("token_error")
              => Logged({"llm_error", "chunk_error"}, "token_error")
       /\ GaveEmpty => Logged({"empty_result", "chunk_empty_result",
                               "empty_after_all_retries"}, "")]_vars

----------------------------------------------------------------------------
(* SpecRows: calculate_tfidf_for_year on every small corpus                *)

\* the texts of the stored segments and the stored keyword tables: a
\* keyword of two words, and segments holding one of the words or both
RowTexts == { <<"A">>, <<"b">>, <<"A", " ", "b">> }

RowKeywordTables ==
    { << [keyword |-> <<"a", " ", "b">>, category |-> "expansion"] >>,
      << [keyword |-> <<"b">>, category |-> "contraction"],
         [keyword |-> <<"a", " ", "b">>, category |-> "expansion"] >> }

\* the corpus tables save_text_segments can have filled
RowCorpora ==
    UNION {[1..n -> [ticker : Tickers, text : RowTexts]] : n \in 0..MaxCorpusRows}

\* build_corpus_for_report saves the company before its segments
InitRows ==
    /\ corpus \in {[y \in Years |-> IF y \in SingleYear THEN c ELSE <<>>] :
                       c \in RowCorpora}
    /\ companies \in {[y \in Years |-> IF y \in SingleYear THEN s ELSE {}] :
                          s \in SUBSET Tickers}
    /\ \A y \in Years : \A i \in 1..Len(corpus[y]) :
           corpus[y][i].ticker \in companies[y]
    /\ keywords \in RowKeywordTables
    /\ tfidf_scores = [y \in Years |-> <<>>]
    /\ tfidf_calls = [y \in Years |-> 0]
    /\ tfidf_runs = [y \in Years |-> 0]
    /\ quantitative_scores = [y \in Years |-> <<>>]
    /\ score_calls = [y \in Years |-> 0]
    /\ score_input = [y \in Years |-> [t \in Tickers |-> <<>>]]
    /\ year_keywords = <<>>
    /\ writer = "none"
    /\ write_pc = "idle"
    /\ write_attempt = 0
    /\ write_sleeps = <<>>
    /\ write_error = "none"
    /\ committed = <<>>
    /\ text = <<>>
    /\ max_tokens = MaxTokens
    /\ chunks = <<>>
    /\ split_pc = "input"
    /\ ExtractIdle
    /\ BatchIdle

NextRows == \E y \in SingleYear : calculate_tfidf_for_year(y)

SpecRows == InitRows /\ [][NextRows]_vars

----------------------------------------------------------------------------
(* Claims about the rows of the TF-IDF step                                *)

\* the rows the step adds to the table of year y
Emitted(y) ==
    SubSeq(tfidf_scores'[y], Len(tfidf_scores[y]) + 1, Len(tfidf_scores'[y]))

\* the keyword text survived for the year: its tfidf is positive
Survived(y, kw_text) ==
    \E i \in 1..Len(year_tfidf(y, keywords)) :
        year_tfidf(y, keywords)[i].keyword = kw_text

\* one of the company's own segments contains the keyword, case ignored
InOwnSegment(t, y, kw_text) ==
    \E i \in 1..Len(get_company_corpus_texts(t, y)) :
        Contains(Lower(get_company_corpus_texts(t, y)[i]), kw_text)

KeywordTexts == {Lower(keywords[i].keyword) : i \in 1..Len(keywords)}

\* at most one row per (company, keyword), and one tf, idf and tfidf per
\* keyword
RowsWellFormed(rows) ==
    \A i, j \in 1..Len(rows) :
        /\ (rows[i].ticker = rows[j].ticker /\ rows[i].keyword = rows[j].keyword)
               => i = j
        /\ rows[i].keyword = rows[j].keyword
               => /\ rows[i].tf = rows[j].tf
                  /\ rows[i].idf = rows[j].idf
                  /\ rows[i].tfidf = rows[j].tfidf

\* C23: a run of calculate_tfidf_for_year emits a row for (company,
\* keyword) if and only if the keyword survived for the year and at least
\* one of the company's own segments contains it, case ignored; it emits
\* at most one row per (company, keyword), and the rows of one keyword
\* carry the same tf, idf and tfidf.
C23_RowIffOwnSegment ==
    [][\A y \in Years :
          tfidf_calls'[y] = tfidf_calls[y] + 1 =>
              /\ RowsWellFormed(Emitted(y))
              /\ \A t \in companies[y], kw_text \in KeywordTexts :
                     (\E i \in 1..Len(Emitted(y)) :
                          /\ Emitted(y)[i].ticker = t
                          /\ Emitted(y)[i].keyword = kw_text)
                     <=> (Survived(y, kw_text) /\ InOwnSegment(t, y, kw_text))]_vars

\* the part of C23 the code keeps: a surviving keyword found in one of the
\* company's segments gets its row, rows go to companies of the year and
\* surviving keywords only, and the rows are well formed
C23_RowsPart ==
    [][\A y \in Years :
          tfidf_calls'[y] = tfidf_calls[y] + 1 =>
              /\ RowsWellFormed(Emitted(y))
              /\ \A i \in 1..Len(Emitted(y)) :
                     /\ Emitted(y)[i].ticker \in companies[y]
                     /\ Survived(y, Emitted(y)[i].keyword)
              /\ \A t \in companies[y], kw_text \in KeywordTexts :
                     (Survived(y, kw_text) /\ InOwnSegment(t, y, kw_text))
                         => \E i \in 1..Len(Emitted(y)) :
                                /\ Emitted(y)[i].ticker = t
                                /\ Emitted(y)[i].keyword = kw_text]_vars

----------------------------------------------------------------------------
(* Claims about the peer-relative score and the normalised densities       *)

\* the companies the last run of year y scored, in the order of the table
ScoredOrder(y) == SelectSeq(TickerOrder, LAMBDA t : score_input[y][t] # <<>>)

\* nc_d of company t in the last run of year y, from the rows the run read
NcDensity(t, y) ==
    RDiv(CategorySum(score_input[y][t], "non_china_regions"),
         calculate_company_scores(score_input[y][t]).total_tfidf)

\* the nc_d of all companies the last run scored
NcDistribution(y) ==
    [i \in 1..Len(ScoredOrder(y)) |-> NcDensity(ScoredOrder(y)[i], y)]

\* clamp(z * 10 + 50, 0, 100) with z taken against the whole distribution
PeerScore(t, y) ==
    LET z == RDiv(RSub(NcDensity(t, y), np_mean(NcDistribution(y))),
                  RAdd(np_std(NcDistribution(y)), self_eps))
    IN  RMax(RInt(0), RMin(RInt(100), RAdd(RMul(z, RInt(10)), RInt(50))))

C25_NormalizedDensities ==
    \A y \in Years : \A i \in 1..Len(quantitative_scores[y]) :
        LET row == quantitative_scores[y][i]
            c == row.china_investment_density
            n == row.non_china_investment_density
            cn == row.china_investment_density_normalized
            nn == row.non_china_investment_density_normalized
            larger == IF RLess(c, n) THEN n ELSE c
            both_zero == RSign(c) = 0 /\ RSign(n) = 0
        IN  /\ (REq(cn, RInt(50)) /\ REq(nn, RInt(50))) <=> both_zero
            /\ ~both_zero =>
                   /\ REq(cn, RMul(RDiv(c, larger), RInt(100)))
                   /\ REq(nn, RMul(RDiv(n, larger), RInt(100)))
                   /\ REq(IF RLess(cn, nn) THEN nn ELSE cn, RInt(100))
                   /\ InUnitRange(cn)
                   /\ InUnitRange(nn)

\* one stored row has both densities zero, another has both positive and
\* its smaller normalised density strictly between 0 and 100
C25_Witness ==
    \E y \in Years : \E i, j \in 1..Len(quantitative_scores[y]) :
        /\ RSign(quantitative_scores[y][i].china_investment_density) = 0
        /\ RSign(quantitative_scores[y][i].non_china_investment_density) = 0
        /\ REq(quantitative_scores[y][i].china_investment_density_normalized, RInt(50))
        /\ REq(quantitative_scores[y][j].china_investment_density_normalized, RInt(100))
        /\ RLess(RInt(0), quantitative_scores[y][j].non_china_investment_density_normalized)
        /\ RLess(quantitative_scores[y][j].non_china_investment_density_normalized, RInt(100))

----------------------------------------------------------------------------
(* SpecYears: the corpus, the TF-IDF step and the score step of two years  *)

\* the segments one report contributes
YearSegments ==
    { << <<"A", " ", "b">>, <<"b">> >>, << <<"A">>, <<"b">> >>, << <<"b">> >> }

\* the keyword table: "a" is in some segments, "b" in all of them
YearKeywords ==
    << [keyword |-> <<"A">>, category |-> "expansion"],
       [keyword |-> <<"b">>, category |-> "contraction"] >>

\* the report of one company has been processed for each year: its company
\* row is stored
InitYears ==
    /\ companies = [y \in Years |-> {TickerOrder[1]}]
    /\ corpus = [y \in Years |-> <<>>]
    /\ keywords = YearKeywords
    /\ tfidf_scores = [y \in Years |-> <<>>]
    /\ tfidf_calls = [y \in Years |-> 0]
    /\ tfidf_runs = [y \in Years |-> 0]
    /\ quantitative_scores = [y \in Years |-> <<>>]
    /\ score_calls = [y \in Years |-> 0]
    /\ score_input = [y \in Years |-> [t \in Tickers |-> <<>>]]
    /\ year_keywords = <<>>
    /\ writer = "none"
    /\ write_pc = "idle"
    /\ write_attempt = 0
    /\ write_sleeps = <<>>
    /\ write_error = "none"
    /\ committed = <<>>
    /\ text = <<>>
    /\ max_tokens = MaxTokens
    /\ chunks = <<>>
    /\ split_pc = "input"
    /\ ExtractIdle
    /\ BatchIdle

\* segments are stored for either year at any time; one year is computed
\* again and again, the other one once
NextYears ==
    \/ \E y \in Years, segments \in YearSegments :
           save_text_segments(TickerOrder[1], y, segments)
    \/ \E y \in Years :
           /\ y \in SingleYear \/ tfidf_calls[y] = 0
           /\ calculate_tfidf_for_year(y)
    \/ \E y \in Years :
           /\ y \in SingleYear \/ score_calls[y] = 0
           /\ calculate_scores_for_year(y)

SpecYears == InitYears /\ [][NextYears]_vars

----------------------------------------------------------------------------
(* Claims about the isolation of years                                     *)

\* the tables of the years other than y are as they were
OtherYearsUnchanged(y) ==
    \A o \in Years \ {y} :
        /\ companies'[o] = companies[o]
        /\ corpus'[o] = corpus[o]
        /\ tfidf_scores'[o] = tfidf_scores[o]
        /\ quantitative_scores'[o] = quantitative_scores[o]

\* the first of n equal parts of table
FirstPart(table, n) == SubSeq(table, 1, Len(table) \div n)

\* C26: the TF-IDF step and the score step of year y write the TF-IDF rows
\* and the scores of year y only and leave the segments, TF-IDF rows and
\* scores of every other year as they were; what they produce depends on
\* year y's companies, segments and TF-IDF rows (and the keywords) only:
\* a run repeated on unchanged data of year y gives the rows of the run
\* before, whatever was stored for other years in between.
C26_YearsIsolated ==
    [][\A y \in Years :
          /\ tfidf_calls'[y] = tfidf_calls[y] + 1 =>
                 /\ OtherYearsUnchanged(y)
                 /\ corpus' = corpus /\ quantitative_scores' = quantitative_scores
                 /\ (tfidf_runs[y] >= 1 /\ tfidf_calls[y] = tfidf_runs[y]) =>
                        tfidf_scores'[y] = tfidf_scores[y]
                            \o FirstPart(tfidf_scores[y], tfidf_runs[y])
          /\ score_calls'[y] = score_calls[y] + 1 =>
                 /\ OtherYearsUnchanged(y)
                 /\ corpus' = corpus /\ tfidf_scores' = tfidf_scores
                 /\ (score_calls[y] > 0 /\ ScoreInput(y) = score_input[y]) =>
                        RowSet(quantitative_scores'[y])
                            = RowSet(quantitative_scores[y])]_vars

\* both years hold TF-IDF rows and scores, their corpora differ, and one
\* of them has been computed twice on its data
C26_Witness ==
    /\ \A y \in Years :
           /\ tfidf_scores[y] # <<>>
           /\ quantitative_scores[y] # <<>>
    /\ \E y, o \in Years :
           /\ corpus[y] # corpus[o]
           /\ tfidf_runs[y] >= 2
           /\ tfidf_calls[y] = tfidf_runs[y]
           /\ score_calls[y] >= 2

\* the keyword text is contained in every segment of the year, of which
\* there is at least one
InEverySegment(y, kw_text) ==
    /\ all_texts(y) # <<>>
    /\ \A i \in 1..Len(all_texts(y)) : Contains(Lower(all_texts(y)[i]), kw_text)

\* C30: a run of the TF-IDF step appends no row of a keyword that is
\* contained in every segment of the year (idf = ln 1 = 0); hence a year
\* whose corpus has one segment or none has no TF-IDF row and no score,
\* however often the two steps have run.
C30_NoRowForKeywordOfEverySegment ==
    /\ [][\A y \in Years :
            tfidf_calls'[y] = tfidf_calls[y] + 1 =>
                \A k \in 1..Len(keywords) :
                    InEverySegment(y, Lower(keywords[k].keyword)) =>
                        \A i \in (Len(tfidf_scores[y]) + 1)..Len(tfidf_scores'[y]) :
                            tfidf_scores'[y][i].keyword # Lower(keywords[k].keyword)]_vars
    /\ [](\A y \in Years :
             Len(all_texts(y)) <= 1 =>
                 tfidf_scores[y] = <<>> /\ quantitative_scores[y] = <<>>)

\* both steps have run on a year of one segment that contains a keyword,
\* and on a year of two segments, both containing one keyword and one of
\* them the other, for which alone rows are stored
C30_Witness ==
    \E y, o \in Years :
        /\ Len(all_texts(y)) = 1
        /\ \E k \in 1..Len(keywords) : InEverySegment(y, Lower(keywords[k].keyword))
        /\ tfidf_calls[y] >= 1 /\ tfidf_runs[y] >= 1
        /\ score_calls[y] >= 1
        /\ Len(all_texts(o)) = 2
        /\ \E k \in 1..Len(keywords) : InEverySegment(o, Lower(keywords[k].keyword))
        /\ tfidf_runs[o] >= 1
        /\ tfidf_scores[o] # <<>>
        /\ quantitative_scores[o] # <<>>

----------------------------------------------------------------------------
(* SpecCorpusKeywords: one call of extract_keywords_from_corpus            *)

\* DatabaseManagerV2.YEARS, in order
YearOrder == <<2023, 2024>>

\* get_available_years(): the years whose table companies_<year> has a row
get_available_years == SelectSeq(YearOrder, LAMBDA y : companies[y] # {})

\* the loop variable year of "for year in years"
year == years[Len(all_years_keywords) + 1]

\* a batch whose task has not finished
NoBatchResult == [kind |-> "none", items |-> <<>>]

\* what a batch can end with: an exception that reaches gather, the empty
\* list (also what llm_extract_keywords returns after its last failure),
\* or the list of keywords the service gave
KeywordBatchResults ==
    { BatchException,
      BatchList(<<>>),
      BatchList(<< [keyword |-> <<"B">>, category |-> "expansion"] >>),
      BatchList(<< [keyword |-> <<"b">>, category |-> "contraction"],
                   [keyword |-> <<"c">>, category |-> "china_negative"] >>) }

\* a corpus table of n segments of one company
KeywordCorpus(n) ==
    [i \in 1..n |-> [ticker |-> TickerOrder[1], text |-> <<"b">>]]

reportVars == <<batch_pc, semaphore, task_pc, outcome, finished, results,
                success_count, failed_count, error_count>>

InitCorpusKeywords ==
    /\ companies \in [Years -> {{}, {TickerOrder[1]}}]
    /\ corpus \in [Years -> {KeywordCorpus(n) : n \in {0, 1, MaxCorpusRows}}]
    /\ \A y \in Years : companies[y] = {} => corpus[y] = <<>>
    /\ keywords = <<>>
    /\ tfidf_scores = [y \in Years |-> <<>>]
    /\ tfidf_calls = [y \in Years |-> 0]
    /\ tfidf_runs = [y \in Years |-> 0]
    /\ quantitative_scores = [y \in Years |-> <<>>]
    /\ score_calls = [y \in Years |-> 0]
    /\ score_input = [y \in Years |-> [t \in Tickers |-> <<>>]]
    /\ year_keywords = <<>>
    /\ writer = "none"
    /\ write_pc = "idle"
    /\ write_attempt = 0
    /\ write_sleeps = <<>>
    /\ write_error = "none"
    /\ committed = <<>>
    /\ text = <<>>
    /\ max_tokens = MaxTokens
    /\ chunks = <<>>
    /\ split_pc = "input"
    /\ ExtractIdle
    /\ BatchIdle

\* the loop goes on with the next year or is over
AfterYear(done) == IF Len(done) = Len(years) THEN "returned" ELSE "loop"

\* extract_keywords_from_corpus is called: years = get_available_years(),
\* "if not years: return {}"
CallExtractKeywords ==
    /\ kw_pc = "idle"
    /\ years' = get_available_years
    /\ kw_pc' = IF get_available_years = <<>> THEN "returned" ELSE "loop"
    /\ UNCHANGED <<kw_semaphore, kw_task, kw_result, all_years_keywords>>
    /\ UNCHANGED <<chunkVars, extractVars, reportVars, dbVars>>

\* extract_keywords_for_year(year) up to asyncio.gather: without texts it
\* returns {} and nothing is saved; otherwise the semaphore is made and one
\* task per batch is handed to gather
EnterYear ==
    /\ kw_pc = "loop"
    /\ IF all_texts(year) = <<>>
       THEN /\ SaveYearKeywords(year, <<>>)
            /\ kw_task' = Append(kw_task, <<>>)
            /\ kw_result' = Append(kw_result, <<>>)
            /\ all_years_keywords' =
                   Append(all_years_keywords, [year |-> year, keywords |-> <<>>])
            /\ kw_pc' = AfterYear(all_years_keywords')
            /\ UNCHANGED kw_semaphore
       ELSE /\ kw_semaphore' = MaxConcurrent
            /\ kw_task' = Append(kw_task,
                   [b \in 1..NumBatches(Len(all_texts(year))) |-> "created"])
            /\ kw_result' = Append(kw_result,
                   [b \in 1..NumBatches(Len(all_texts(year))) |-> NoBatchResult])
            /\ kw_pc' = "gathering"
            /\ UNCHANGED all_years_keywords
            /\ UNCHANGED <<chunkVars, extractVars, dbVars>>
    /\ UNCHANGED <<years, reportVars>>

\* the tasks of the year being gathered
current == Len(kw_task)

SetTask(b, pc) == [kw_task EXCEPT ![current][b] = pc]

\* extract_with_semaphore(batch_id, batch) starts: "async with semaphore"
\* takes a slot or waits for one
StartKeywordTask(b) ==
    /\ kw_pc = "gathering"
    /\ b \in DOMAIN kw_task[current]
    /\ kw_task[current][b] = "created"
    /\ IF SlotFree(kw_semaphore)
       THEN /\ kw_semaphore' = kw_semaphore - 1
            /\ kw_task' = SetTask(b, "running")
       ELSE /\ kw_task' = SetTask(b, "waiting")
            /\ UNCHANGED kw_semaphore
    /\ UNCHANGED <<kw_pc, years, kw_result, all_years_keywords>>
    /\ UNCHANGED <<chunkVars, extractVars, reportVars, dbVars>>

\* a waiting task is woken once a slot is free
AdmitKeywordTask(b) ==
    /\ kw_pc = "gathering"
    /\ b \in DOMAIN kw_task[current]
    /\ kw_task[current][b] = "waiting"
    /\ SlotFree(kw_semaphore)
    /\ kw_semaphore' = kw_semaphore - 1
    /\ kw_task' = SetTask(b, "running")
    /\ UNCHANGED <<kw_pc, years, kw_result, all_years_keywords>>
    /\ UNCHANGED <<chunkVars, extractVars, reportVars, dbVars>>

\* llm_extract_keywords(batch, batch_id) returns r, or raises what gather
\* keeps as the task's result; the slot is released either way
FinishKeywordTask(b, r) ==
    /\ kw_pc = "gathering"
    /\ b \in DOMAIN kw_task[current]
    /\ kw_task[current][b] = "running"
    /\ kw_task' = SetTask(b, "done")
    /\ kw_result' = [kw_result EXCEPT ![current][b] = r]
    /\ kw_semaphore' = IF r.kind = "exception"
                       THEN ReleaseOnException(kw_semaphore)
                       ELSE ReleaseOnReturn(kw_semaphore)
    /\ UNCHANGED <<kw_pc, years, all_years_keywords>>
    /\ UNCHANGED <<chunkVars, extractVars, reportVars, dbVars>>

\* faulty variant: gather returns with the first finished task
GatherDoneFirst(tasks) == \E b \in DOMAIN tasks : tasks[b] = "done"

\* asyncio.gather(*tasks, return_exceptions=True) returns once every task
\* is done
GatherDone(tasks) == \A b \in DOMAIN tasks : tasks[b] = "done"

\* gather returns: the results are merged in the order of the batches,
\* all_years_keywords[year] is set and the keywords, if any, are saved
YearGathered ==
    /\ kw_pc = "gathering"
    /\ GatherDone(kw_task[current])
    /\ SaveYearKeywords(year, kw_result[current])
    /\ all_years_keywords' =
           Append(all_years_keywords,
                  [year |-> year, keywords |-> year_keywords'])
    /\ kw_pc' = AfterYear(all_years_keywords')
    /\ UNCHANGED <<years, kw_semaphore, kw_task, kw_result, reportVars>>

NextCorpusKeywords ==
    \/ CallExtractKeywords
    \/ EnterYear
    \/ \E b \in 1..NumBatches(MaxCorpusRows) :
           \/ StartKeywordTask(b)
           \/ AdmitKeywordTask(b)
           \/ \E r \in KeywordBatchResults : FinishKeywordTask(b, r)
    \/ YearGathered

SpecCorpusKeywords == InitCorpusKeywords /\ [][NextCorpusKeywords]_vars

----------------------------------------------------------------------------
(* Claims about the run of the keyword extraction                          *)

\* the batches of the i-th year entered that hold a slot of the semaphore
InFlightBatches(i) == {b \in DOMAIN kw_task[i] : kw_task[i][b] = "running"}

\* the keyword text kw_text is in table
HasKeyword(table, kw_text) ==
    \E m \in 1..Len(table) : table[m].keyword = kw_text

\* every batch of the j-th year entered has finished, the year's keywords
\* are in all_years_keywords and in the table keywords
YearFinished(j) ==
    /\ \A b \in DOMAIN kw_task[j] : kw_task[j][b] = "done"
    /\ j <= Len(all_years_keywords)
    /\ all_years_keywords[j].year = years[j]
    /\ \A k \in 1..Len(all_years_keywords[j].keywords) :
           HasKeyword(keywords, all_years_keywords[j].keywords[k].keyword)

\* C27: the years are taken one after another, in the order of years: while
\* a year has tasks, every batch of every year before it has finished and
\* that year's keywords are saved; of one year at most max_concurrent
\* batches are inside the semaphore at a time; and when gather has returned,
\* every keyword of every batch that returned a list is merged into the
\* year's keywords and saved, whatever the other batches ended with.
C27_YearsInTurn ==
    /\ [](\A i \in 1..Len(kw_task) :
             /\ \A j \in 1..(i - 1) : YearFinished(j)
             /\ Cardinality(InFlightBatches(i)) <= MaxConcurrent)
    /\ [][(kw_pc = "gathering" /\ all_years_keywords' # all_years_keywords) =>
             \A b \in DOMAIN kw_result[current] :
                 kw_result[current][b].kind = "list" =>
                     \A k \in 1..Len(kw_result[current][b].items) :
                         LET kw_text ==
                                 Lower(Strip(kw_result[current][b].items[k].keyword))
                         IN  kw_text # <<>> =>
                                 /\ HasKeyword(year_keywords', kw_text)
                                 /\ HasKeyword(keywords', kw_text)]_vars

\* the second year is being gathered with max_concurrent batches inside
\* the semaphore and one waiting; in the first year one batch raised, one
\* returned the empty list and one returned keywords, which are saved
C27_Witness ==
    /\ kw_pc = "gathering"
    /\ current = 2
    /\ Cardinality(InFlightBatches(2)) = MaxConcurrent
    /\ \E b \in DOMAIN kw_task[2] : kw_task[2][b] = "waiting"
    /\ \E b \in DOMAIN kw_result[1] : kw_result[1][b] = BatchException
    /\ \E b \in DOMAIN kw_result[1] : kw_result[1][b] = BatchList(<<>>)
    /\ all_years_keywords[1].keywords # <<>>
    /\ keywords = all_years_keywords[1].keywords

----------------------------------------------------------------------------
(* SpecRetry: reports built one after another, and get_failed_companies    *)

\* the ticker and the year extract_metadata reads from the file's name: the
\* files beyond the tickers are further documents of the same companies
ReportTicker(f) == TickerOrder[((f - 1) % Len(TickerOrder)) + 1]

ReportYear(f) == 2024

\* the text_segments llm_extract can return, as the list of seg.get('text', '')
ReportSegments == { <<>>, << <<>> >>, << <<"b">> >>, << <<>>, <<"b">> >> }

\* where build_corpus_for_report raises: before save_company (metadata,
\* parse_html, llm_extract), in save_structured_data, or nowhere
ReportStages == {"extract", "structured", "none"}

\* the company has a row in corpus_<year> whose text_segment is not empty
HasTextSegment(t, y) ==
    \E i \in 1..Len(corpus[y]) :
        corpus[y][i].ticker = t /\ corpus[y][i].text # <<>>

\* faulty variant: any row of the company counts, whatever its text
GetFailedCompaniesAnyRow(y) ==
    {t \in companies[y] :
        ~\E i \in 1..Len(corpus[y]) : corpus[y][i].ticker = t}

\* SELECT c.ticker, c.file_path FROM companies_<year> c WHERE c.ticker NOT IN
\* (SELECT DISTINCT ticker FROM corpus_<year> WHERE text_segment IS NOT NULL
\* AND LENGTH(text_segment) > 0) AND c.file_path IS NOT NULL; save_company
\* is called with file_path = str(html_file) only, so no file_path is NULL
get_failed_companies(y) == {t \in companies[y] : ~HasTextSegment(t, y)}

\* build_corpus_for_report(file): llm_extract returned segments;
\* save_company, save_structured_data and save_text_segments follow in
\* this order, up to the stage that raises
build_corpus_for_report(f, segments, stage) ==
    LET t == ReportTicker(f)
        y == ReportYear(f)
        saved == IF stage = "none" THEN segments ELSE <<>>
    IN  /\ Len(finished) < NumFiles
        /\ Len(corpus[y]) + Len(saved) <= MaxSegments
        /\ companies' = IF stage = "extract" THEN companies
                        ELSE [companies EXCEPT ![y] = @ \cup {t}]
        /\ corpus' = [corpus EXCEPT ![y] =
               @ \o [i \in 1..Len(saved) |-> [ticker |-> t, text |-> saved[i]]]]
        /\ tfidf_runs' = IF companies' = companies /\ saved = <<>>
                         THEN tfidf_runs ELSE [tfidf_runs EXCEPT ![y] = 0]
        /\ outcome' = [outcome EXCEPT ![f] =
               IF stage = "none" THEN ReportDict(f, Len(segments))
               ELSE ReportException(f)]
        /\ finished' = Append(finished, f)
        /\ UNCHANGED <<keywords, tfidf_scores, tfidf_calls, quantitative_scores,
                       score_calls, score_input, year_keywords, writeVars>>
        /\ UNCHANGED <<batch_pc, semaphore, task_pc, results, success_count,
                       failed_count, error_count, keywordVars>>
        /\ UNCHANGED <<chunkVars, extractVars>>

InitRetry ==
    /\ DatabaseEmpty
    /\ text = <<>>
    /\ max_tokens = MaxTokens
    /\ chunks = <<>>
    /\ split_pc = "input"
    /\ ExtractIdle
    /\ BatchIdle

NextRetry ==
    \E f \in Files, segments \in ReportSegments, stage \in ReportStages :
        build_corpus_for_report(f, segments, stage)

SpecRetry == InitRetry /\ [][NextRetry]_vars

====
